---- MODULE Spec2Model ----
(***************************************************************************)
(* Focus tracking of ferrous-focus: the per-backend event loops (X11 run   *)
(* and run_async, the Windows and macOS polling loops, the Sway IPC loop)  *)
(* and the subscription adapter, driven by an environment that changes the *)
(* focused window, window titles and window icons.                         *)
(*                                                                         *)
(* One tracker is started per behaviour: Init picks the backend and the    *)
(* entry point (mode).  Every handler of the source is one action: the     *)
(* notification handler reads the window properties as they are at the     *)
(* moment the notification is handled, as the code does.                   *)
(***************************************************************************)
EXTENDS Naturals, Sequences, FiniteSets

VARIABLES
    backend,                \* "x11" | "windows" | "macos" | "wayland"
    mode,                   \* entry point: "blocking" | "stop" | "subscribe" | "async" | "async_stop"
    source,                 \* what establishing the event source answers: "ok" | an error
    \* ---- the operating system ----
    procOf,                 \* window -> process name (fixed per window)
    active,                 \* focused window, or None
    title,                  \* window -> current title
    iconOf,                 \* window -> native icon, or NoIcon
    subscribed,             \* X11: non-root windows with PROPERTY_CHANGE selected
    queue,                  \* X11 notifications / Sway stream items not yet read
    envBudget,              \* environment changes still allowed
    \* ---- shared with the caller ----
    stop,                   \* the caller's stop flag
    stop_at_call,           \* the stop flag was already set when the call was made
    rxAlive,                \* the consumer's receiving end still exists
    chan,                   \* events sent and not yet received
    \* ---- the loop (sync run, or the async worker) ----
    pc,                     \* "init" | "top" | "wait" | "done"
    result,                 \* what the loop returned: Running | "Ok" | an error
    current_focused_window, \* X11
    cached_icon,            \* X11
    prev_hwnd,              \* Windows
    prev_process,           \* macOS
    prev_title,             \* Windows and macOS
    last_focused,           \* Sway
    tick,                   \* parity of the poll_interval sleeps taken (X11, Windows)
    \* ---- the async consumer ----
    cpc,                    \* "idle" | "top" | "recv" | "handler" | "grace" | "join" | "returned" | "dropped"
    cresult,                \* what the async call returned
    internal_stop,          \* the worker's internal stop flag
    \* ---- history ----
    emitted,                \* events the loop handed to on_focus / tx.send, in order
    delivered,              \* events the consumer side received, in order
    fetches,                \* number of native icon fetches
    observed,               \* the loop has obtained a window identity at least once
    seen,                   \* macOS, Sway: the (process, title) the loop obtained last
    ignored,                \* X11: the notification last consumed without an event
    cbFailed,               \* some on_focus invocation returned Err
    reconnected,            \* Sway: the connection was re-established after a stream error
    \* ---- X11: a run_async worker fed the notifications of the blocking run ----
    w_current_focused_window,
    w_cached_icon,
    w_sent,                 \* events that worker handed to tx.send, in order
    w_result,               \* what that worker returned: Running | "Ok" | an error
    \* ---- functions applied on their own (mode "apply") ----
    emitted_at_stop,        \* history: Len(emitted) when the caller set the stop flag
    applied,                \* the last application: [fn, arg, out]
    config                  \* the FocusTrackerConfig under construction

vars == << backend, mode, source, stop_at_call, seen, ignored, procOf, active,
           title, iconOf, subscribed, queue, envBudget, stop, rxAlive, chan, pc,
           result, current_focused_window, cached_icon, prev_hwnd, prev_process,
           prev_title, last_focused, tick, cpc, cresult, internal_stop, emitted,
           delivered, fetches, observed, cbFailed, reconnected,
           w_current_focused_window, w_cached_icon, w_sent, w_result,
           emitted_at_stop, applied, config >>

\* Everything but `applied` and `config`
loopVars == << backend, mode, source, stop_at_call, seen, ignored, procOf,
               active, title, iconOf, subscribed, queue, envBudget, stop,
               rxAlive, chan, pc, result, current_focused_window, cached_icon,
               prev_hwnd, prev_process, prev_title, last_focused, tick, cpc,
               cresult, internal_stop, emitted, delivered, fetches, observed,
               cbFailed, reconnected, w_current_focused_window, w_cached_icon,
               w_sent, w_result, emitted_at_stop >>
pairVars == << w_current_focused_window, w_cached_icon, w_sent, w_result >>
envVars == << procOf, active, title, iconOf, envBudget >>
x11Vars == << current_focused_window, cached_icon >>
pollVars == << prev_hwnd, prev_process, prev_title >>
asyncVars == << cpc, cresult, internal_stop >>

(***************************************************************************)
(* Bounds and value sets                                                   *)
(***************************************************************************)
MaxEnv == 3

None == "none"
Root == "root"
NoIcon == "noicon"
Running == "running"

Windows == {"w1", "w2"}
Procs == {"a", "b"}
Titles == {"T1", "T2"}
\* The icon each window has when it has one
NativeIcon == [w \in Windows |-> IF w = "w1" THEN "i1" ELSE "i2"]

Backends == {"x11", "windows", "macos", "wayland"}

\* <<backend, mode>>: the entry points each backend has
CallbackConfigs == Backends \X {"blocking", "stop"}
SubscribeConfigs == {"x11", "windows", "macos"} \X {"subscribe"}
AsyncConfigs == {"x11"} \X {"async", "async_stop"}
X11Configs == {"x11"} \X {"blocking", "stop", "async"}

IsAsync == mode \in {"async", "async_stop"}
IsSync == ~IsAsync
\* stop_signal: Option<&AtomicBool> of the sync loop
HasStopSignal == mode \in {"stop", "subscribe"}

(***************************************************************************)
(* Values                                                                  *)
(***************************************************************************)
\* A stream item.  X11: a PropertyNotify (kind is the atom, window the
\* window it was sent for).  Sway: an item of the subscribed stream, the
\* container's name and app_id as they were when the event was produced.
Item(k, w, t, p) == [kind |-> k, window |-> w, title |-> t, proc |-> p]

\* No item
NoItem == Item(None, None, None, None)

\* FocusedWindow (process_id left out: no claim reads it), with the branch
\* that produced it and the window it was read from.
FocusedWindow(p, t, i, k, w) ==
    [process_name |-> p, window_title |-> t, icon |-> i, kind |-> k, win |-> w]

Key(e) == << e.process_name, e.window_title >>

\* No pair obtained yet
NoKey == << None, None >>

(***************************************************************************)
(* The operating system                                                    *)
(***************************************************************************)
\* The environment is followed while the loop is in its event loop: what
\* happens before it starts is a choice of Init, and nothing reads the
\* windows after it has returned.
LoopRunning == pc \notin {"init", "done"}

\* The focus moves to another window, or to no window.  X11: the window
\* manager rewrites _NET_ACTIVE_WINDOW on the root window, which the tracker
\* selected in setup_root_window_monitoring.  Sway: a window event with
\* change Focus for the newly focused container.
EnvFocus(w) ==
    /\ envBudget > 0
    /\ LoopRunning
    /\ w # active
    /\ active' = w
    /\ envBudget' = envBudget - 1
    /\ queue' = CASE backend = "x11" -> Append(queue, Item("active", Root, None, None))
                  [] backend = "wayland" /\ w # None ->
                        Append(queue, Item("focus", w, title[w], procOf[w]))
                  [] OTHER -> queue
    /\ UNCHANGED << backend, mode, pairVars, applied, config, emitted_at_stop, source, stop_at_call, seen, ignored, procOf, title, iconOf, subscribed, stop, rxAlive,
                    chan, pc, result, x11Vars, pollVars, last_focused, tick,
                    asyncVars, emitted, delivered, fetches, observed, cbFailed,
                    reconnected >>

\* A window changes its title.  X11: a PropertyNotify for _NET_WM_NAME goes
\* to the clients that selected PROPERTY_CHANGE on that window.  Sway: a
\* window event with change Title.
EnvTitle(w, t) ==
    /\ envBudget > 0
    /\ LoopRunning
    /\ t # title[w]
    /\ title' = [title EXCEPT ![w] = t]
    /\ envBudget' = envBudget - 1
    /\ queue' = CASE backend = "x11" /\ w \in subscribed ->
                        Append(queue, Item("name", w, None, None))
                  [] backend = "wayland" ->
                        Append(queue, Item("title", w, t, procOf[w]))
                  [] OTHER -> queue
    /\ UNCHANGED << backend, mode, pairVars, applied, config, emitted_at_stop, source, stop_at_call, seen, ignored, procOf, active, iconOf, subscribed, stop, rxAlive,
                    chan, pc, result, x11Vars, pollVars, last_focused, tick,
                    asyncVars, emitted, delivered, fetches, observed, cbFailed,
                    reconnected >>

\* A window withdraws its icon, or sets it again.  X11: a PropertyNotify
\* for _NET_WM_ICON, an atom the loop does not look at.
EnvIcon(w) ==
    /\ envBudget > 0
    /\ LoopRunning
    /\ iconOf' = [iconOf EXCEPT ![w] = IF @ = NoIcon THEN NativeIcon[w] ELSE NoIcon]
    /\ envBudget' = envBudget - 1
    /\ queue' = IF backend = "x11" /\ w \in subscribed
                THEN Append(queue, Item("other", w, None, None))
                ELSE queue
    /\ UNCHANGED << backend, mode, pairVars, applied, config, emitted_at_stop, source, stop_at_call, seen, ignored, procOf, active, title, subscribed, stop, rxAlive,
                    chan, pc, result, x11Vars, pollVars, last_focused, tick,
                    asyncVars, emitted, delivered, fetches, observed, cbFailed,
                    reconnected >>

\* The Sway IPC stream breaks: the iterator yields an Err item.
EnvStreamError ==
    /\ backend = "wayland"
    /\ envBudget > 0
    /\ LoopRunning
    /\ envBudget' = envBudget - 1
    /\ queue' = Append(queue, Item("err", None, None, None))
    /\ UNCHANGED << backend, mode, pairVars, applied, config, emitted_at_stop, source, stop_at_call, seen, ignored, procOf, active, title, iconOf, subscribed, stop,
                    rxAlive, chan, pc, result, x11Vars, pollVars, last_focused, tick,
                    asyncVars, emitted, delivered, fetches, observed, cbFailed,
                    reconnected >>

\* The caller sets the stop flag it passed to track_focus_with_stop or
\* track_focus_async_with_stop.  subscribe_focus_changes keeps its flag to
\* itself and never sets it.
CallerStops ==
    /\ mode \in {"stop", "async_stop"}
    /\ ~stop
    /\ pc # "done"
    /\ stop' = TRUE
    /\ emitted_at_stop' = Len(emitted)
    /\ UNCHANGED << backend, mode, pairVars, applied, config, source, stop_at_call, seen, ignored, envVars, subscribed, queue, rxAlive, chan, pc,
                    result, x11Vars, pollVars, last_focused, tick, asyncVars,
                    emitted, delivered, fetches, observed, cbFailed, reconnected >>

(***************************************************************************)
(* Helpers shared by the loops                                             *)
(***************************************************************************)
\* should_stop(stop_signal)
should_stop == HasStopSignal /\ stop

\* Result::ok(): an Err becomes None
ok(r) == IF r = "Err" THEN None ELSE r

\* on_focus(ev) called from a sync loop, returning Ok iff r.  The user's
\* callback may return either; the closure of subscribe_focus_changes
\* returns Err exactly when sender.send fails, i.e. the Receiver is gone.
OnFocus(ev, r) ==
    /\ emitted' = Append(emitted, ev)
    /\ IF mode = "subscribe"
       THEN /\ r = rxAlive
            /\ chan' = IF rxAlive THEN Append(chan, ev) ELSE chan
       ELSE chan' = chan
    /\ cbFailed' = (cbFailed \/ ~r)

NoCallback(r) ==
    /\ r = TRUE
    /\ UNCHANGED << emitted, chan, cbFailed >>

(***************************************************************************)
(* X11: queries                                                            *)
(***************************************************************************)
\* get_active_window: the value of _NET_ACTIVE_WINDOW now
get_active_window == active

\* get_window_info(conn, window, atoms): always Ok, icon None
x11_get_window_info(w, k) == FocusedWindow(procOf[w], title[w], None, k, w)

\* get_icon_data(conn, window, ..): Err when the window has no usable
\* _NET_WM_ICON, else the icon
get_icon_data(w) == IF iconOf[w] = NoIcon THEN "Err" ELSE iconOf[w]

\* update_window_monitoring as it would be without the NO_EVENT mask on the
\* old window
update_window_monitoring_KeepsOld(cfw, new_window) ==
    subscribed \cup (IF new_window # None THEN {new_window} ELSE {})

\* update_window_monitoring as it would be if it returned early when no
\* window is active
update_window_monitoring_SkipsNone(cfw, new_window) ==
    IF new_window = None THEN subscribed
    ELSE (subscribed \ {cfw}) \cup {new_window}

\* update_window_monitoring(conn, &mut current_focused_window, new_window):
\* the windows selected for PROPERTY_CHANGE afterwards
update_window_monitoring(cfw, new_window) ==
    (subscribed \ {cfw}) \cup (IF new_window # None THEN {new_window} ELSE {})

\* XClassify as it would be without the comparison of the notification's
\* window with the monitored window
XClassify_AnyWindow(ev, cfw) ==
    IF ev.kind = "active" /\ ev.window = Root
    THEN [should_emit |-> TRUE, new_window |-> get_active_window, is_focus_change |-> TRUE]
    ELSE IF ev.kind = "name"
    THEN [should_emit |-> TRUE, new_window |-> cfw, is_focus_change |-> FALSE]
    ELSE [should_emit |-> FALSE, new_window |-> None, is_focus_change |-> FALSE]

\* XClassify as it would be without the comparison of the notification's
\* atom with _NET_WM_NAME
XClassify_AnyAtom(ev, cfw) ==
    IF ev.kind = "active" /\ ev.window = Root
    THEN [should_emit |-> TRUE, new_window |-> get_active_window, is_focus_change |-> TRUE]
    ELSE IF ev.window = cfw
    THEN [should_emit |-> TRUE, new_window |-> cfw, is_focus_change |-> FALSE]
    ELSE [should_emit |-> FALSE, new_window |-> None, is_focus_change |-> FALSE]

\* The branch taken for a PropertyNotify(atom, window)
XClassify(ev, cfw) ==
    IF ev.kind = "active" /\ ev.window = Root
    THEN [should_emit |-> TRUE, new_window |-> get_active_window, is_focus_change |-> TRUE]
    ELSE IF ev.kind = "name" /\ ev.window = cfw
    THEN [should_emit |-> TRUE, new_window |-> cfw, is_focus_change |-> FALSE]
    ELSE [should_emit |-> FALSE, new_window |-> None, is_focus_change |-> FALSE]

\* XIconFor as it would be if the icon were fetched for every event
XIconFor_AlwaysFetch(is_focus_change, w, cache) ==
    [icon |-> ok(get_icon_data(w)), fetched |-> 1]

\* XIconFor as it would be if a failed fetch fell back to the cached icon
XIconFor_FallbackToCache(is_focus_change, w, cache) ==
    IF is_focus_change
    THEN [icon |-> IF get_icon_data(w) = "Err" THEN cache ELSE get_icon_data(w),
          fetched |-> 1]
    ELSE [icon |-> cache, fetched |-> 0]

\* XIconFor as it would be if a cached icon were kept across focus changes
XIconFor_CacheNotReplaced(is_focus_change, w, cache) ==
    IF is_focus_change /\ cache = None
    THEN [icon |-> ok(get_icon_data(w)), fetched |-> 1]
    ELSE [icon |-> cache, fetched |-> 0]

\* The icon put on the event, and whether get_icon_data ran for it
XIconFor(is_focus_change, w, cache) ==
    IF is_focus_change
    THEN [icon |-> ok(get_icon_data(w)), fetched |-> 1]
    ELSE [icon |-> cache, fetched |-> 0]

(***************************************************************************)
(* X11: run (track_focus, track_focus_with_stop, the subscription worker)  *)
(***************************************************************************)
\* wayland_detect(): the session is a Wayland session
wayland_detect == source = "Wayland"

\* Linux ImplFocusTracker::track_focus / track_focus_with_stop on a Wayland
\* session: Unsupported, the X11 tracker is not called
ImplTrackFocusWayland ==
    /\ backend = "x11" /\ IsSync /\ pc = "init"
    /\ wayland_detect
    /\ pc' = "done" /\ result' = "Unsupported"
    /\ UNCHANGED << backend, mode, pairVars, applied, config, emitted_at_stop, source, stop_at_call, seen, ignored, envVars, subscribed, queue, stop, rxAlive,
                    chan, x11Vars, pollVars, last_focused, tick, asyncVars, emitted,
                    delivered, fetches, observed, cbFailed, reconnected >>

\* Setup and the initial snapshot.  setup: connect_to_x11, setup_atoms or
\* setup_root_window_monitoring may fail, and that error is returned.
XStart ==
    /\ backend = "x11" /\ IsSync /\ pc = "init"
    /\ ~wayland_detect
    /\ \E awOk, cbOk \in BOOLEAN :
         IF source # "ok"
         THEN /\ pc' = "done" /\ result' = source
              /\ awOk /\ cbOk
              /\ UNCHANGED << subscribed, x11Vars, emitted, chan, cbFailed,
                              fetches, observed >>
         ELSE /\ pc' = "top" /\ result' = result
              /\ IF awOk /\ get_active_window # None
                 THEN LET window == get_active_window
                          icon == ok(get_icon_data(window))
                          fw == [x11_get_window_info(window, "initial")
                                    EXCEPT !.icon = icon]
                      IN /\ cached_icon' = icon
                         /\ OnFocus(fw, cbOk)
                         /\ current_focused_window' = window
                         /\ subscribed' = subscribed \cup {window}
                         /\ fetches' = fetches + 1
                         /\ observed' = TRUE
                 ELSE /\ NoCallback(cbOk)
                      /\ UNCHANGED << subscribed, x11Vars, fetches, observed >>
    /\ UNCHANGED << backend, mode, pairVars, applied, config, emitted_at_stop, source, stop_at_call, seen, ignored, envVars, queue, stop, rxAlive, pollVars,
                    last_focused, tick, asyncVars, delivered, reconnected >>

\* XTop as it would be without the check of the stop flag
XTop_NoStopCheck ==
    /\ backend = "x11" /\ IsSync /\ pc = "top"
    /\ pc' = "wait" /\ result' = result
    /\ UNCHANGED << backend, mode, pairVars, applied, config, emitted_at_stop, source, stop_at_call, seen, ignored, envVars, subscribed, queue, stop, rxAlive, chan,
                    x11Vars, pollVars, last_focused, tick, asyncVars, emitted,
                    delivered, fetches, observed, cbFailed, reconnected >>

\* Top of the loop: the stop flag is checked before get_next_event
XTop ==
    /\ backend = "x11" /\ IsSync /\ pc = "top"
    /\ IF should_stop
       THEN pc' = "done" /\ result' = "Ok"
       ELSE pc' = "wait" /\ result' = result
    /\ UNCHANGED << backend, mode, pairVars, applied, config, emitted_at_stop, source, stop_at_call, seen, ignored, envVars, subscribed, queue, stop, rxAlive, chan,
                    x11Vars, pollVars, last_focused, tick, asyncVars, emitted,
                    delivered, fetches, observed, cbFailed, reconnected >>

\* get_next_event with a stop signal: poll_for_event returns Ok(None), the
\* loop sleeps poll_interval and polls again
XPollNone ==
    /\ backend = "x11" /\ IsSync /\ pc = "wait"
    /\ HasStopSignal
    /\ queue = << >>
    /\ tick' = 1 - tick
    /\ UNCHANGED << backend, mode, pairVars, applied, config, emitted_at_stop, source, stop_at_call, seen, ignored, envVars, subscribed, queue, stop, rxAlive, chan,
                    pc, result, x11Vars, pollVars, last_focused, asyncVars, emitted,
                    delivered, fetches, observed, cbFailed, reconnected >>

\* get_next_event: poll_for_event / wait_for_event returns Err, the loop
\* logs, sleeps a second and tries again
XWaitErr ==
    /\ backend = "x11" /\ IsSync /\ pc = "wait"
    /\ UNCHANGED vars

\* get_next_event returns an event and the loop body handles it
XHandle ==
    /\ backend = "x11" /\ IsSync /\ pc = "wait"
    /\ queue # << >>
    /\ LET ev == Head(queue)
           c == XClassify(ev, current_focused_window)
       IN \E awOk, cbOk, flushOk \in BOOLEAN :
            /\ queue' = Tail(queue)
            /\ ignored' = IF (c.is_focus_change /\ ~awOk)
                              \/ ~(c.should_emit /\ c.new_window # None)
                           THEN ev ELSE ignored
            /\ IF c.is_focus_change /\ ~awOk
               THEN \* get_active_window failed: continue
                    /\ cbOk /\ flushOk
                    /\ pc' = "top" /\ result' = result
                    /\ UNCHANGED << subscribed, x11Vars, emitted, chan, cbFailed,
                                    fetches, observed >>
               ELSE /\ subscribed' = IF c.is_focus_change
                                     THEN update_window_monitoring(
                                              current_focused_window, c.new_window)
                                     ELSE subscribed
                    /\ current_focused_window' = IF c.is_focus_change
                                                 THEN c.new_window
                                                 ELSE current_focused_window
                    /\ IF c.should_emit /\ c.new_window # None
                       THEN LET window == c.new_window
                                got == XIconFor(c.is_focus_change, window, cached_icon)
                                fw == [x11_get_window_info(window,
                                           IF c.is_focus_change THEN "active" ELSE "title")
                                         EXCEPT !.icon = got.icon]
                            IN /\ cached_icon' = IF c.is_focus_change
                                                 THEN got.icon ELSE cached_icon
                               /\ fetches' = fetches + got.fetched
                               /\ OnFocus(fw, cbOk)
                               /\ observed' = TRUE
                       ELSE /\ NoCallback(cbOk)
                            /\ UNCHANGED << cached_icon, fetches, observed >>
                    /\ IF flushOk
                       THEN pc' = "top" /\ result' = result
                       ELSE pc' = "done" /\ result' = "Platform"
    /\ UNCHANGED << backend, mode, pairVars, applied, config, emitted_at_stop, source, stop_at_call, seen, envVars, stop, rxAlive, pollVars, last_focused,
                    tick, asyncVars, delivered, reconnected >>

(***************************************************************************)
(* Windows: ImplFocusTracker::run                                          *)
(***************************************************************************)
\* get_window_icon(hwnd, ..): extract_window_icon(..).ok()
get_window_icon(hwnd) == IF iconOf[hwnd] = NoIcon THEN None ELSE iconOf[hwnd]

\* focus_changed as it would be without the remembered window
WinFocusChanged_Always(prev, current_hwnd) == TRUE

\* focus_changed
WinFocusChanged(prev, current_hwnd) ==
    IF prev # None THEN prev # current_hwnd ELSE TRUE

\* title_changed
WinTitleChanged(prev_t, t) ==
    IF prev_t # None THEN prev_t # t ELSE TRUE

\* The else branch of the poll as it would be if it left the remembered
\* window and title alone
WinNoForeground_KeepsRemembered(prev, prev_t) == << prev, prev_t >>

\* The else branch of the poll (no foreground window): the remembered window
\* and title afterwards
WinNoForeground(prev, prev_t) ==
    IF prev # None THEN << None, None >> ELSE << prev, prev_t >>

\* utils::is_interactive_session(): always Ok, true iff GetForegroundWindow()
\* is not null
is_interactive_session == active # None

\* The session check and the initial snapshot
WinStart ==
    /\ backend = "windows" /\ pc = "init"
    /\ \E infoOk, cbOk \in BOOLEAN :
         IF ~is_interactive_session
         THEN /\ pc' = "done" /\ result' = "NotInteractiveSession"
              /\ infoOk /\ cbOk
              /\ UNCHANGED << prev_hwnd, prev_title, emitted, chan, cbFailed,
                              fetches, observed >>
         ELSE /\ pc' = "top" /\ result' = result
              /\ IF active # None /\ infoOk
                 THEN LET hwnd == active
                          fw == FocusedWindow(procOf[hwnd], title[hwnd],
                                              get_window_icon(hwnd), "initial", hwnd)
                      IN /\ OnFocus(fw, cbOk)
                         /\ fetches' = fetches + 1
                         /\ observed' = TRUE
                         /\ prev_hwnd' = hwnd
                         /\ prev_title' = title[hwnd]
                 ELSE /\ NoCallback(cbOk)
                      /\ UNCHANGED << prev_hwnd, prev_title, fetches, observed >>
    /\ UNCHANGED << backend, mode, pairVars, applied, config, emitted_at_stop, source, stop_at_call, seen, ignored, envVars, subscribed, queue, stop, rxAlive,
                    x11Vars, prev_process, last_focused, tick, asyncVars, delivered,
                    reconnected >>

\* Top of the loop with the stop flag set
WinStop ==
    /\ backend = "windows" /\ pc = "top"
    /\ should_stop
    /\ pc' = "done" /\ result' = "Ok"
    /\ UNCHANGED << backend, mode, pairVars, applied, config, emitted_at_stop, source, stop_at_call, seen, ignored, envVars, subscribed, queue, stop, rxAlive, chan,
                    x11Vars, pollVars, last_focused, tick, asyncVars, emitted,
                    delivered, fetches, observed, cbFailed, reconnected >>

\* One iteration: the foreground window is queried, compared, reported,
\* and the loop sleeps poll_interval
WinPoll ==
    /\ backend = "windows" /\ pc = "top"
    /\ ~should_stop
    /\ \E infoOk, cbOk \in BOOLEAN :
         IF active # None
         THEN LET current_hwnd == active
                  focus_changed == WinFocusChanged(prev_hwnd, current_hwnd)
                  title_changed == WinTitleChanged(prev_title, title[current_hwnd])
              IN IF infoOk /\ (focus_changed \/ title_changed)
                 THEN LET fw == FocusedWindow(procOf[current_hwnd], title[current_hwnd],
                                     get_window_icon(current_hwnd),
                                     IF focus_changed THEN "active" ELSE "title",
                                     current_hwnd)
                      IN /\ OnFocus(fw, cbOk)
                         /\ fetches' = fetches + 1
                         /\ observed' = TRUE
                         /\ prev_hwnd' = current_hwnd
                         /\ prev_title' = title[current_hwnd]
                 ELSE /\ NoCallback(cbOk)
                      /\ observed' = (observed \/ infoOk)
                      /\ UNCHANGED << prev_hwnd, prev_title, fetches >>
         ELSE /\ infoOk
              /\ NoCallback(cbOk)
              /\ prev_hwnd' = WinNoForeground(prev_hwnd, prev_title)[1]
              /\ prev_title' = WinNoForeground(prev_hwnd, prev_title)[2]
              /\ UNCHANGED << fetches, observed >>
    /\ tick' = 1 - tick
    /\ UNCHANGED << backend, mode, pairVars, applied, config, emitted_at_stop, source, stop_at_call, seen, ignored, envVars, subscribed, queue, stop, rxAlive, pc,
                    result, x11Vars, prev_process, last_focused, asyncVars,
                    delivered, reconnected >>

(***************************************************************************)
(* macOS: ImplFocusTracker::run                                            *)
(***************************************************************************)
\* get_app_icon(&process).ok() then convert_icon_to_icon_data: the
\* placeholder 32x32 image, or None when the application has no icon
get_app_icon(w) == IF iconOf[w] = NoIcon THEN None ELSE "blank32"

\* MacFocusChanged as it would be if the first run were not reported
MacFocusChanged_FirstRunSilent(prev_proc, prev_ttl, process, ttl) ==
    IF prev_proc # None /\ prev_ttl # None
    THEN prev_proc # process \/ prev_ttl # ttl
    ELSE FALSE

\* focus_changed
MacFocusChanged(prev_proc, prev_ttl, process, ttl) ==
    IF prev_proc # None /\ prev_ttl # None
    THEN prev_proc # process \/ prev_ttl # ttl
    ELSE TRUE

\* Top of the loop with the stop flag set
MacStop ==
    /\ backend = "macos" /\ pc \in {"init", "top"}
    /\ should_stop
    /\ pc' = "done" /\ result' = "Ok"
    /\ UNCHANGED << backend, mode, pairVars, applied, config, emitted_at_stop, source, stop_at_call, seen, ignored, envVars, subscribed, queue, stop, rxAlive, chan,
                    x11Vars, pollVars, last_focused, tick, asyncVars, emitted,
                    delivered, fetches, observed, cbFailed, reconnected >>

\* One iteration: get_focused_window_info, compare, report with `?`, sleep.
\* get_focused_window_info fails whenever the accessibility query is denied,
\* and may fail for other reasons.
MacPoll ==
    /\ backend = "macos" /\ pc \in {"init", "top"}
    /\ ~should_stop
    /\ \E infoOk, cbOk \in BOOLEAN :
         /\ source # "ok" => ~infoOk
         /\ IF active # None /\ infoOk
            THEN LET process == procOf[active]
                     ttl == title[active]
                 IN /\ seen' = << process, ttl >>
                    /\ IF MacFocusChanged(prev_process, prev_title, process, ttl)
                       THEN LET fw == FocusedWindow(process, ttl, get_app_icon(active),
                                           "poll", active)
                            IN /\ OnFocus(fw, cbOk)
                               /\ observed' = TRUE
                               /\ IF cbOk
                                  THEN /\ prev_process' = process
                                       /\ prev_title' = ttl
                                       /\ pc' = "top" /\ result' = result
                                  ELSE /\ UNCHANGED << prev_process, prev_title >>
                                       /\ pc' = "done" /\ result' = "Callback"
                       ELSE /\ NoCallback(cbOk)
                            /\ observed' = TRUE
                            /\ pc' = "top" /\ result' = result
                            /\ UNCHANGED << prev_process, prev_title >>
            ELSE /\ NoCallback(cbOk)
                 /\ pc' = "top" /\ result' = result
                 /\ UNCHANGED << prev_process, prev_title, observed, seen >>
    /\ UNCHANGED << backend, mode, pairVars, applied, config, emitted_at_stop, source, stop_at_call, ignored, envVars, subscribed, queue, stop, rxAlive,
                    x11Vars, prev_hwnd, last_focused, tick, asyncVars, delivered,
                    fetches, reconnected >>

(***************************************************************************)
(* Sway IPC: track_focus and track_focus_with_stop                         *)
(***************************************************************************)
\* get_focused_window_from_event: the container's app_id and name, and an
\* empty icon
get_focused_window_from_event(item) ==
    FocusedWindow(item.proc, item.title, "empty", "focus", item.window)

\* "Check if focus actually changed"
WlChanged(last, current_title) == last # current_title

\* The stop check made for each stream item (track_focus_with_stop only)
WlStopCheck == mode = "stop" /\ stop

\* is_sway_available, Connection::new and subscribe
WlStart ==
    /\ backend = "wayland" /\ pc = "init"
    /\ IF source = "ok"
       THEN pc' = "wait" /\ result' = result
       ELSE pc' = "done" /\ result' = "Platform"
    /\ UNCHANGED << backend, mode, pairVars, applied, config, emitted_at_stop, source, stop_at_call, seen, ignored, envVars, subscribed, queue, stop, rxAlive, chan,
                    x11Vars, pollVars, last_focused, tick, asyncVars, emitted,
                    delivered, fetches, observed, cbFailed, reconnected >>

\* The body of `for event in event_iterator` for the next stream item
WlNext ==
    /\ backend = "wayland" /\ pc = "wait"
    /\ queue # << >>
    /\ LET item == Head(queue) IN
       \E cbOk, connOk, subOk \in BOOLEAN :
         /\ queue' = Tail(queue)
         /\ IF WlStopCheck
            THEN /\ pc' = "done" /\ result' = "Ok"
                 /\ NoCallback(cbOk) /\ connOk /\ subOk
                 /\ UNCHANGED << last_focused, observed, seen, reconnected >>
            ELSE CASE item.kind = "focus" ->
                        /\ connOk /\ subOk
                        /\ pc' = pc /\ result' = result
                        /\ observed' = TRUE
                        /\ seen' = << item.proc, item.title >>
                        /\ reconnected' = reconnected
                        /\ IF WlChanged(last_focused, item.title)
                           THEN /\ last_focused' = item.title
                                /\ OnFocus(get_focused_window_from_event(item), cbOk)
                           ELSE /\ NoCallback(cbOk)
                                /\ last_focused' = last_focused
                   [] item.kind = "err" ->
                        /\ NoCallback(cbOk)
                        /\ subOk \/ connOk
                        /\ pc' = "done"
                        /\ result' = IF connOk /\ subOk THEN "Ok" ELSE "Platform"
                        /\ reconnected' = (connOk /\ subOk)
                        /\ UNCHANGED << last_focused, observed, seen >>
                   [] OTHER ->
                        /\ NoCallback(cbOk) /\ connOk /\ subOk
                        /\ pc' = pc /\ result' = result
                        /\ UNCHANGED << last_focused, observed, seen, reconnected >>
    /\ UNCHANGED << backend, mode, pairVars, applied, config, emitted_at_stop, source, stop_at_call, ignored, envVars, subscribed, stop, rxAlive, x11Vars,
                    pollVars, tick, asyncVars, delivered, fetches >>

(***************************************************************************)
(* X11: run_async, the blocking worker (spawn_blocking closure)            *)
(***************************************************************************)
\* TxSend as it would be if the channel handed out the newest event first
TxSend_NewestFirst(ev) ==
    /\ emitted' = Append(emitted, ev)
    /\ chan' = IF rxAlive THEN << ev >> \o chan ELSE chan

\* tx.send(ev): fails when the receiver has been dropped
TxSend(ev) ==
    /\ emitted' = Append(emitted, ev)
    /\ chan' = IF rxAlive THEN Append(chan, ev) ELSE chan

\* The icon put on the event by the worker
WIconFor(is_focus_change, w, cache) ==
    IF is_focus_change
    THEN [icon |-> ok(get_icon_data(w)), fetched |-> 1]
    ELSE [icon |-> cache, fetched |-> 0]

\* Setup and the initial snapshot, sent over the channel
WStart ==
    /\ backend = "x11" /\ IsAsync /\ pc = "init"
    /\ \E awOk \in BOOLEAN :
         IF source # "ok"
         THEN /\ pc' = "done" /\ result' = source
              /\ awOk
              /\ UNCHANGED << subscribed, x11Vars, emitted, chan, fetches, observed >>
         ELSE IF awOk /\ get_active_window # None
              THEN LET window == get_active_window
                       icon == ok(get_icon_data(window))
                       fw == [x11_get_window_info(window, "initial")
                                 EXCEPT !.icon = icon]
                   IN /\ cached_icon' = icon
                      /\ fetches' = fetches + 1
                      /\ observed' = TRUE
                      /\ TxSend(fw)
                      /\ IF rxAlive
                         THEN /\ current_focused_window' = window
                              /\ subscribed' = subscribed \cup {window}
                              /\ pc' = "top" /\ result' = result
                         ELSE /\ UNCHANGED << current_focused_window, subscribed >>
                              /\ pc' = "done" /\ result' = "Ok"
              ELSE /\ pc' = "top" /\ result' = result
                   /\ UNCHANGED << subscribed, x11Vars, emitted, chan, fetches,
                                   observed >>
    /\ UNCHANGED << backend, mode, pairVars, applied, config, emitted_at_stop, source, stop_at_call, seen, ignored, envVars, queue, stop, rxAlive, pollVars,
                    last_focused, tick, asyncVars, delivered, cbFailed, reconnected >>

\* WStop as it would be if the worker cleared the internal flag it has seen
WStop_ClearsFlag ==
    /\ backend = "x11" /\ IsAsync /\ pc = "top"
    /\ internal_stop
    /\ pc' = "done" /\ result' = "Ok"
    /\ internal_stop' = FALSE
    /\ UNCHANGED << backend, mode, pairVars, applied, config, emitted_at_stop, source, stop_at_call, seen, ignored, envVars, subscribed, queue, stop, rxAlive, chan,
                    x11Vars, pollVars, last_focused, tick, cpc, cresult, emitted,
                    delivered, fetches, observed, cbFailed, reconnected >>

\* Top of the worker loop with the internal stop flag set
WStop ==
    /\ backend = "x11" /\ IsAsync /\ pc = "top"
    /\ internal_stop
    /\ pc' = "done" /\ result' = "Ok"
    /\ UNCHANGED << backend, mode, pairVars, applied, config, emitted_at_stop, source, stop_at_call, seen, ignored, envVars, subscribed, queue, stop, rxAlive, chan,
                    x11Vars, pollVars, last_focused, tick, asyncVars, emitted,
                    delivered, fetches, observed, cbFailed, reconnected >>

\* poll_for_event returns Ok(None) or Err: sleep, continue
WPollNone ==
    /\ backend = "x11" /\ IsAsync /\ pc = "top"
    /\ ~internal_stop
    /\ UNCHANGED vars

\* poll_for_event returns an event and the worker handles it
WHandle ==
    /\ backend = "x11" /\ IsAsync /\ pc = "top"
    /\ ~internal_stop
    /\ queue # << >>
    /\ LET ev == Head(queue)
           c == XClassify(ev, current_focused_window)
       IN \E awOk \in BOOLEAN :
            /\ queue' = Tail(queue)
            /\ ignored' = IF (c.is_focus_change /\ ~awOk)
                              \/ ~(c.should_emit /\ c.new_window # None)
                           THEN ev ELSE ignored
            /\ IF c.is_focus_change /\ ~awOk
               THEN /\ pc' = "top" /\ result' = result
                    /\ UNCHANGED << subscribed, x11Vars, emitted, chan, fetches,
                                    observed >>
               ELSE /\ subscribed' = IF c.is_focus_change
                                     THEN update_window_monitoring(
                                              current_focused_window, c.new_window)
                                     ELSE subscribed
                    /\ current_focused_window' = IF c.is_focus_change
                                                 THEN c.new_window
                                                 ELSE current_focused_window
                    /\ IF c.should_emit /\ c.new_window # None
                       THEN LET window == c.new_window
                                got == WIconFor(c.is_focus_change, window, cached_icon)
                                fw == [x11_get_window_info(window,
                                           IF c.is_focus_change THEN "active" ELSE "title")
                                         EXCEPT !.icon = got.icon]
                            IN /\ cached_icon' = IF c.is_focus_change
                                                 THEN got.icon ELSE cached_icon
                               /\ fetches' = fetches + got.fetched
                               /\ observed' = TRUE
                               /\ TxSend(fw)
                               /\ IF rxAlive
                                  THEN pc' = "top" /\ result' = result
                                  ELSE pc' = "done" /\ result' = "Ok"
                       ELSE /\ pc' = "top" /\ result' = result
                            /\ UNCHANGED << cached_icon, emitted, chan, fetches,
                                            observed >>
    /\ UNCHANGED << backend, mode, pairVars, applied, config, emitted_at_stop, source, stop_at_call, seen, envVars, stop, rxAlive, pollVars, last_focused,
                    tick, asyncVars, delivered, cbFailed, reconnected >>

(***************************************************************************)
(* X11: run_async, the consumer (the future the caller awaits)             *)
(***************************************************************************)
\* What follows the consumer loop: the internal flag is stored, rx dropped
Cleanup ==
    /\ internal_stop' = TRUE
    /\ rxAlive' = FALSE
    /\ chan' = << >>
    /\ cpc' = "grace"

\* CTop as it would be without the check of the external stop flag
CTop_IgnoresStop ==
    /\ IsAsync /\ cpc = "top"
    /\ cpc' = "recv"
    /\ UNCHANGED << internal_stop, rxAlive, chan >>
    /\ UNCHANGED << backend, mode, pairVars, applied, config, emitted_at_stop, source, stop_at_call, seen, ignored, envVars, subscribed, queue, stop, pc, result,
                    x11Vars, pollVars, last_focused, tick, cresult, emitted,
                    delivered, fetches, observed, cbFailed, reconnected >>

\* Top of the consumer loop: the external stop flag, if any, is checked
CTop ==
    /\ IsAsync /\ cpc = "top"
    /\ IF mode = "async_stop" /\ stop
       THEN Cleanup
       ELSE /\ cpc' = "recv"
            /\ UNCHANGED << internal_stop, rxAlive, chan >>
    /\ UNCHANGED << backend, mode, pairVars, applied, config, emitted_at_stop, source, stop_at_call, seen, ignored, envVars, subscribed, queue, stop, pc, result,
                    x11Vars, pollVars, last_focused, tick, cresult, emitted,
                    delivered, fetches, observed, cbFailed, reconnected >>

\* CRecv as it would be if the handler's future were spawned and the loop
\* went on receiving without awaiting it
CRecv_HandlerNotAwaited ==
    /\ IsAsync /\ cpc \in {"recv", "handler"}
    /\ chan # << >>
    /\ delivered' = Append(delivered, Head(chan))
    /\ chan' = Tail(chan)
    /\ cpc' = "handler"
    /\ UNCHANGED << backend, mode, pairVars, applied, config, emitted_at_stop, source, stop_at_call, seen, ignored, envVars, subscribed, queue, stop, rxAlive, pc,
                    result, x11Vars, pollVars, last_focused, tick, cresult,
                    internal_stop, emitted, fetches, observed, cbFailed, reconnected >>

\* timeout(50ms, rx.recv()) yields an event: on_focus is called with it
CRecv ==
    /\ IsAsync /\ cpc = "recv"
    /\ chan # << >>
    /\ delivered' = Append(delivered, Head(chan))
    /\ chan' = Tail(chan)
    /\ cpc' = "handler"
    /\ UNCHANGED << backend, mode, pairVars, applied, config, emitted_at_stop, source, stop_at_call, seen, ignored, envVars, subscribed, queue, stop, rxAlive, pc,
                    result, x11Vars, pollVars, last_focused, tick, cresult,
                    internal_stop, emitted, fetches, observed, cbFailed, reconnected >>

\* timeout(50ms, rx.recv()) yields None: the worker has ended and dropped tx
CRecvClosed ==
    /\ IsAsync /\ cpc = "recv"
    /\ chan = << >> /\ pc = "done"
    /\ Cleanup
    /\ UNCHANGED << backend, mode, pairVars, applied, config, emitted_at_stop, source, stop_at_call, seen, ignored, envVars, subscribed, queue, stop, pc, result,
                    x11Vars, pollVars, last_focused, tick, cresult, emitted,
                    delivered, fetches, observed, cbFailed, reconnected >>

\* timeout(50ms, rx.recv()) times out
CTimeout ==
    /\ IsAsync /\ cpc = "recv"
    /\ chan = << >> /\ pc # "done"
    /\ cpc' = "top"
    /\ UNCHANGED << backend, mode, pairVars, applied, config, emitted_at_stop, source, stop_at_call, seen, ignored, envVars, subscribed, queue, stop, rxAlive, chan,
                    pc, result, x11Vars, pollVars, last_focused, tick, cresult,
                    internal_stop, emitted, delivered, fetches, observed, cbFailed,
                    reconnected >>

\* on_focus(focused_window).await completes, with Ok or Err
CHandlerDone ==
    /\ IsAsync /\ cpc = "handler"
    /\ \E cbOk \in BOOLEAN : cbFailed' = (cbFailed \/ ~cbOk)
    /\ cpc' = "top"
    /\ UNCHANGED << backend, mode, pairVars, applied, config, emitted_at_stop, source, stop_at_call, seen, ignored, envVars, subscribed, queue, stop, rxAlive, chan,
                    pc, result, x11Vars, pollVars, last_focused, tick, cresult,
                    internal_stop, emitted, delivered, fetches, observed,
                    reconnected >>

\* The 50 ms grace sleep ends
CGrace ==
    /\ IsAsync /\ cpc = "grace"
    /\ cpc' = "join"
    /\ UNCHANGED << backend, mode, pairVars, applied, config, emitted_at_stop, source, stop_at_call, seen, ignored, envVars, subscribed, queue, stop, rxAlive, chan,
                    pc, result, x11Vars, pollVars, last_focused, tick, cresult,
                    internal_stop, emitted, delivered, fetches, observed, cbFailed,
                    reconnected >>

\* CJoin as it would be if the call returned the consumer loop's own result
\* without waiting for the worker
CJoin_NotAwaited ==
    /\ IsAsync /\ cpc = "join"
    /\ cresult' = "Ok"
    /\ cpc' = "returned"
    /\ UNCHANGED << backend, mode, pairVars, applied, config, emitted_at_stop, source, stop_at_call, seen, ignored, envVars, subscribed, queue, stop, rxAlive, chan,
                    pc, result, x11Vars, pollVars, last_focused, tick,
                    internal_stop, emitted, delivered, fetches, observed, cbFailed,
                    reconnected >>

\* blocking_handle.await completes: the worker's error, else the loop's Ok
CJoin ==
    /\ IsAsync /\ cpc = "join"
    /\ pc = "done"
    /\ cresult' = result
    /\ cpc' = "returned"
    /\ UNCHANGED << backend, mode, pairVars, applied, config, emitted_at_stop, source, stop_at_call, seen, ignored, envVars, subscribed, queue, stop, rxAlive, chan,
                    pc, result, x11Vars, pollVars, last_focused, tick,
                    internal_stop, emitted, delivered, fetches, observed, cbFailed,
                    reconnected >>

\* The caller drops or aborts the future while it is suspended at an await:
\* everything the future owns is dropped, rx included; no code of run_async
\* runs any more
CDropped ==
    /\ IsAsync /\ cpc \in {"recv", "handler", "grace", "join"}
    /\ cpc' = "dropped"
    /\ rxAlive' = FALSE
    /\ chan' = << >>
    /\ UNCHANGED << backend, mode, pairVars, applied, config, emitted_at_stop, source, stop_at_call, seen, ignored, envVars, subscribed, queue, stop, pc, result,
                    x11Vars, pollVars, last_focused, tick, cresult, internal_stop,
                    emitted, delivered, fetches, observed, cbFailed, reconnected >>

(***************************************************************************)
(* subscribe_focus_changes: the holder of the Receiver                     *)
(***************************************************************************)
\* subscribe_focus_changes as it would be if it waited for the worker and
\* handed its result on
subscribe_focus_changes_WorkerResult(worker_result) ==
    IF worker_result \in {Running, "Ok"} THEN "Ok" ELSE worker_result

\* What subscribe_focus_changes returns: the worker's result is dropped
\* (`let _ = tracker.track_focus_with_stop(..)`) and Ok(receiver) returned
subscribe_focus_changes(worker_result) == "Ok"

\* receiver.recv() / try_recv() yields the next event
SubRecv ==
    /\ mode = "subscribe" /\ rxAlive
    /\ chan # << >>
    /\ delivered' = Append(delivered, Head(chan))
    /\ chan' = Tail(chan)
    /\ UNCHANGED << backend, mode, pairVars, applied, config, emitted_at_stop, source, stop_at_call, seen, ignored, envVars, subscribed, queue, stop, rxAlive, pc,
                    result, x11Vars, pollVars, last_focused, tick, asyncVars,
                    emitted, fetches, observed, cbFailed, reconnected >>

\* The Receiver is dropped
SubDrop ==
    /\ mode = "subscribe" /\ rxAlive
    /\ rxAlive' = FALSE
    /\ chan' = << >>
    /\ UNCHANGED << backend, mode, pairVars, applied, config, emitted_at_stop, source, stop_at_call, seen, ignored, envVars, subscribed, queue, stop, pc, result,
                    x11Vars, pollVars, last_focused, tick, asyncVars, emitted,
                    delivered, fetches, observed, cbFailed, reconnected >>

(***************************************************************************)
(* X11: the blocking run and the run_async worker on the same notifications *)
(***************************************************************************)
\* One iteration of run's loop body on notification ev: the state it leaves
\* and the events it hands to on_focus.  flushed: the iteration reaches
\* flush_connection (the `continue` after a failed get_active_window does
\* not).
XBody(ev, cfw, cache, awOk) ==
    LET c == XClassify(ev, cfw)
    IN IF c.is_focus_change /\ ~awOk
       THEN [cfw |-> cfw, cache |-> cache, events |-> << >>, flushed |-> FALSE]
       ELSE LET ncfw == IF c.is_focus_change THEN c.new_window ELSE cfw
            IN IF c.should_emit /\ c.new_window # None
               THEN LET got == XIconFor(c.is_focus_change, c.new_window, cache)
                        fw == [x11_get_window_info(c.new_window,
                                   IF c.is_focus_change THEN "active" ELSE "title")
                                 EXCEPT !.icon = got.icon]
                    IN [cfw |-> ncfw,
                        cache |-> IF c.is_focus_change THEN got.icon ELSE cache,
                        events |-> << fw >>, flushed |-> TRUE]
               ELSE [cfw |-> ncfw, cache |-> cache, events |-> << >>,
                     flushed |-> TRUE]

\* One iteration of the worker's loop body on notification ev
WBody(ev, cfw, cache, awOk) ==
    LET c == XClassify(ev, cfw)
    IN IF c.is_focus_change /\ ~awOk
       THEN [cfw |-> cfw, cache |-> cache, events |-> << >>, flushed |-> FALSE]
       ELSE LET ncfw == IF c.is_focus_change THEN c.new_window ELSE cfw
            IN IF c.should_emit /\ c.new_window # None
               THEN LET got == WIconFor(c.is_focus_change, c.new_window, cache)
                        fw == [x11_get_window_info(c.new_window,
                                   IF c.is_focus_change THEN "active" ELSE "title")
                                 EXCEPT !.icon = got.icon]
                    IN [cfw |-> ncfw,
                        cache |-> IF c.is_focus_change THEN got.icon ELSE cache,
                        events |-> << fw >>, flushed |-> TRUE]
               ELSE [cfw |-> ncfw, cache |-> cache, events |-> << >>,
                     flushed |-> TRUE]

\* run after flush_connection(&conn)?: an Err is returned
XAfterFlush(flushed, flushOk) ==
    IF flushed /\ ~flushOk THEN "Platform" ELSE Running

\* The worker after `if let Err(e) = flush_connection(&conn) { info!(..) }`
WAfterFlush(flushed, flushOk) == Running

\* Both loops are set up against the same display and take the initial
\* snapshot; the handler succeeds and the receiver stays alive
PairStart ==
    /\ backend = "x11" /\ mode = "pair" /\ pc = "init"
    /\ \E awOk \in BOOLEAN :
         IF source # "ok"
         THEN /\ pc' = "done" /\ result' = source
              /\ w_result' = source
              /\ awOk
              /\ UNCHANGED << subscribed, x11Vars, emitted, fetches, observed,
                              w_current_focused_window, w_cached_icon, w_sent >>
         ELSE /\ pc' = "top" /\ result' = result
              /\ w_result' = w_result
              /\ IF awOk /\ get_active_window # None
                 THEN LET window == get_active_window
                          icon == ok(get_icon_data(window))
                          fw == [x11_get_window_info(window, "initial")
                                    EXCEPT !.icon = icon]
                      IN /\ cached_icon' = icon
                         /\ emitted' = Append(emitted, fw)
                         /\ current_focused_window' = window
                         /\ w_cached_icon' = icon
                         /\ w_sent' = Append(w_sent, fw)
                         /\ w_current_focused_window' = window
                         /\ subscribed' = subscribed \cup {window}
                         /\ fetches' = fetches + 1
                         /\ observed' = TRUE
                 ELSE UNCHANGED << subscribed, x11Vars, emitted, fetches, observed,
                                   w_current_focused_window, w_cached_icon, w_sent >>
    /\ UNCHANGED << backend, mode, applied, config, emitted_at_stop, source, stop_at_call, seen, ignored, envVars,
                    queue, stop, rxAlive, chan, pollVars, last_focused, tick,
                    asyncVars, delivered, cbFailed, reconnected >>

\* The next notification is handled by each loop that is still running,
\* with the same answers from the X server
PairHandle ==
    /\ backend = "x11" /\ mode = "pair"
    /\ pc = "top" \/ (pc = "done" /\ w_result = Running)
    /\ queue # << >>
    /\ \E awOk, flushOk \in BOOLEAN :
         LET ev == Head(queue)
             x == XBody(ev, current_focused_window, cached_icon, awOk)
             w == WBody(ev, w_current_focused_window, w_cached_icon, awOk)
             wc == XClassify(ev, w_current_focused_window)
         IN /\ queue' = Tail(queue)
            /\ IF pc = "top"
               THEN /\ current_focused_window' = x.cfw
                    /\ cached_icon' = x.cache
                    /\ emitted' = emitted \o x.events
                    /\ result' = XAfterFlush(x.flushed, flushOk)
                    /\ pc' = IF result' = Running THEN "top" ELSE "done"
               ELSE UNCHANGED << x11Vars, emitted, result, pc >>
            /\ w_current_focused_window' = w.cfw
            /\ w_cached_icon' = w.cache
            /\ w_sent' = w_sent \o w.events
            /\ w_result' = WAfterFlush(w.flushed, flushOk)
            /\ subscribed' = IF wc.is_focus_change /\ awOk
                             THEN update_window_monitoring(
                                      w_current_focused_window, wc.new_window)
                             ELSE subscribed
            /\ observed' = (observed \/ w.events # << >>)
    /\ UNCHANGED << backend, mode, applied, config, emitted_at_stop, source, stop_at_call, seen, ignored, envVars,
                    stop, rxAlive, chan, pollVars, last_focused, tick, asyncVars,
                    delivered, fetches, cbFailed, reconnected >>

(***************************************************************************)
(* Option and Result values of the functions applied on their own          *)
(***************************************************************************)
\* Option<T>: the empty sequence, or the sequence of the one value
Nothing == << >>
Some(v) == << v >>
\* Result<T, FerrousFocusError>
Ok(v) == [ok |-> TRUE, val |-> v]
Err(e) == [ok |-> FALSE, err |-> e]
\* No function applied yet
NoCall == [fn |-> "none", arg |-> << >>, out |-> << >>]

(***************************************************************************)
(* config.rs: IconConfig and FocusTrackerConfig                            *)
(***************************************************************************)
\* Duration::from_millis(100), the default poll interval
DefaultPollMs == 100
\* Duration::from_secs(10) in milliseconds, the largest poll interval
MaxPollMs == 10000
\* The largest icon size validate_size accepts
MaxIconSize == 512

\* Arguments the builders are called with: poll intervals in milliseconds
\* and icon sizes in pixels, in range, at the limits and out of range
PollArgs == {0, 1, 50, DefaultPollMs, 250, MaxPollMs, MaxPollMs + 1}
SizeArgs == {0, 1, 64, 128, MaxIconSize, MaxIconSize + 1}

\* IconConfig::default() / IconConfig::new()
IconConfig_default == [size |-> Nothing]

\* IconConfig::validate_size: TRUE when it returns, FALSE when it panics
validate_size(size) == ~(size = 0) /\ ~(size > MaxIconSize)

\* FocusTrackerConfig::validate_poll_interval: TRUE when it returns
validate_poll_interval(interval) == ~(interval = 0) /\ ~(interval > MaxPollMs)

\* IconConfig values a caller can hand to with_icon_config: the struct and
\* its field are pub, so any Option<u32> can be in `size`
IconConfigValues == {IconConfig_default} \cup {[size |-> Some(s)] : s \in SizeArgs}

\* FocusTrackerConfig::default() / FocusTrackerConfig::new().  panicked: a
\* builder panicked and there is no configuration value any more
FocusTrackerConfig_default ==
    [poll_interval |-> DefaultPollMs, icon |-> IconConfig_default, panicked |-> FALSE]

Building == mode = "build" /\ ~config.panicked

\* FocusTrackerConfig::with_icon_config(icon)
with_icon_config ==
    /\ Building
    /\ \E icon \in IconConfigValues : config' = [config EXCEPT !.icon = icon]
    /\ applied' = [fn |-> "with_icon_config", arg |-> << >>, out |-> << >>]
    /\ UNCHANGED loopVars

\* FocusTrackerConfig::with_icon_size(size): IconConfig::with_size(size)
with_icon_size ==
    /\ Building
    /\ \E size \in SizeArgs :
         config' = IF validate_size(size)
                   THEN [config EXCEPT !.icon = [size |-> Some(size)]]
                   ELSE [config EXCEPT !.panicked = TRUE]
    /\ applied' = [fn |-> "with_icon_size", arg |-> << >>, out |-> << >>]
    /\ UNCHANGED loopVars

\* FocusTrackerConfig::with_poll_interval(interval)
with_poll_interval ==
    /\ Building
    /\ \E interval \in PollArgs :
         config' = IF validate_poll_interval(interval)
                   THEN [config EXCEPT !.poll_interval = interval]
                   ELSE [config EXCEPT !.panicked = TRUE]
    /\ applied' = [fn |-> "with_poll_interval", arg |-> << >>, out |-> << >>]
    /\ UNCHANGED loopVars

\* FocusTrackerConfig::with_poll_interval_ms(ms):
\* self.with_poll_interval(Duration::from_millis(ms))
with_poll_interval_ms ==
    /\ Building
    /\ \E ms \in PollArgs :
         config' = IF validate_poll_interval(ms)
                   THEN [config EXCEPT !.poll_interval = ms]
                   ELSE [config EXCEPT !.panicked = TRUE]
    /\ applied' = [fn |-> "with_poll_interval_ms", arg |-> << >>, out |-> << >>]
    /\ UNCHANGED loopVars

(***************************************************************************)
(* Icons: machine integers, pixels, images                                 *)
(***************************************************************************)
\* Width in bits of u32 in this model: icon dimensions are U32Bits wide, so
\* that the products the code computes can leave the integer type
U32Bits == 3
\* The most pixel words a source buffer holds after its header
MaxPixels == 4
\* The largest icon size a configuration asks for in this model
MaxTarget == 2

RECURSIVE Pow2(_)
Pow2(n) == IF n = 0 THEN 1 ELSE 2 * Pow2(n - 1)

\* Values of a u32 dimension
U32 == 0..(Pow2(U32Bits) - 1)
\* Widths of usize: the 32-bit targets, where usize is as wide as u32, and
\* the 64-bit targets, where it is twice as wide
PointerWidths == {U32Bits, 2 * U32Bits}
\* Debug builds check integer overflow and panic, release builds wrap
Profiles == {"debug", "release"}

\* usize::checked_mul
checked_mul(a, b, bits) == IF a * b < Pow2(bits) THEN Some(a * b) ELSE Nothing
\* The wrapped product of a release build
wrapping_mul(a, b, bits) == (a * b) % Pow2(bits)

\* 32-bit pixel words 0xAARRGGBB: 0x11223344, 0x7FFF0080
PixelWords == {287454020, 2147418240}

\* The four bytes pushed for one ARGB word: r, g, b, a
ArgbToRgba(argb) ==
    << (argb \div 65536) % 256, (argb \div 256) % 256, argb % 256,
       (argb \div 16777216) % 256 >>

\* The RGBA bytes of a sequence of ARGB words, in order
RgbaBytes(words) ==
    [k \in 1..(4 * Len(words)) |-> ArgbToRgba(words[((k - 1) \div 4) + 1])[((k - 1) % 4) + 1]]

\* Sequences over S of length 0..n
RECURSIVE SeqUpTo(_, _)
SeqUpTo(S, n) ==
    IF n = 0 THEN {<< >>}
    ELSE LET shorter == SeqUpTo(S, n - 1)
         IN shorter \cup {Append(s, x) : s \in {t \in shorter : Len(t) = n - 1}, x \in S}

\* image::RgbaImage
Image(w, h, px) == [width |-> w, height |-> h, pixels |-> px]

\* RgbaImage::from_raw(width, height, buf): None when buf is too short
from_raw(w, h, buf) == IF Len(buf) >= w * h * 4 THEN Some(Image(w, h, buf)) ELSE Nothing

\* Filters of image::imageops::FilterType used here
FilterTypes == {"Nearest", "Gaussian"}

\* image::imageops::resize(&image, nw, nh, filter), a library function.  Its
\* output is nw x nh.  Nearest: the source pixel nearest to each target
\* pixel.  Gaussian stands for the smoothing filters, which change pixel
\* values even at equal size: the mean of that source pixel and its right
\* neighbour.
imageops_resize(image, nw, nh, filter) ==
    LET src(x, y, c) == image.pixels[4 * (y * image.width + x) + c + 1]
        sx(x) == (x * image.width) \div nw
        sy(y) == (y * image.height) \div nh
        right(x) == IF x + 1 < image.width THEN x + 1 ELSE x
        px(k) == LET p == (k - 1) \div 4
                     c == (k - 1) % 4
                     x == sx(p % nw)
                     y == sy(p \div nw)
                 IN IF filter = "Nearest"
                    THEN src(x, y, c)
                    ELSE (src(x, y, c) + src(right(x), y, c)) \div 2
    IN Image(nw, nh, [k \in 1..(nw * nh * 4) |-> px(k)])

\* resize_icon as it would be without the early return
resize_icon_AlwaysResample(image, target_size, filter_type) ==
    imageops_resize(image, target_size, target_size, filter_type)

\* X11 resize_icon(image, target_size, filter_type)
resize_icon(image, target_size, filter_type) ==
    IF image.width = target_size /\ image.height = target_size
    THEN image
    ELSE imageops_resize(image, target_size, target_size, filter_type)

\* Windows resize_icon(image, target_size): the filter is fixed (Lanczos3,
\* one of the smoothing filters)
win_resize_icon(image, target_size) ==
    IF image.width = target_size /\ image.height = target_size
    THEN image
    ELSE imageops_resize(image, target_size, target_size, "Gaussian")

(***************************************************************************)
(* X11: get_icon_data on a _NET_WM_ICON reply                              *)
(***************************************************************************)
\* get_icon_data as it would be with the channels pushed in source order
IconBytes_SourceOrder(words) ==
    [k \in 1..(4 * Len(words)) |->
        LET px == ArgbToRgba(words[((k - 1) \div 4) + 1])
        IN << px[4], px[1], px[2], px[3] >>[((k - 1) % 4) + 1]]

\* The bytes get_icon_data pushes for the pixel words it reads
IconBytes(words) == RgbaBytes(words)

\* `available_pixels < expected_pixels` is an error
EnoughPixels(available, expected) == ~(available < expected)

\* (width as usize).checked_mul(height as usize)
ExpectedPixels(width, height, bits) == checked_mul(width, height, bits)

\* get_icon_data as it would be if it converted every word after the header
PixelSlice_AllAvailable(values, expected) == SubSeq(values, 3, Len(values))

\* &values[2..2 + expected_pixels], where the range is within the values
PixelSlice(values, expected) ==
    SubSeq(values, 3, IF 2 + expected <= Len(values) THEN 2 + expected ELSE Len(values))

\* get_icon_data from the reply's 32-bit values on: values is the
\* property as a sequence of words, size the configured icon size, bits the
\* width of usize
get_icon_data_reply(values, size, filter_type, bits) ==
    IF Len(values) = 0 THEN Err("Unsupported")
    ELSE IF Len(values) < 2 THEN Err("Platform")
    ELSE LET width == values[1]
             height == values[2]
             expected_pixels == ExpectedPixels(width, height, bits)
             available_pixels == Len(values) - 2
         IN IF width = 0 \/ height = 0 THEN Err("Platform")
            ELSE IF expected_pixels = Nothing THEN Err("Platform")
            ELSE IF ~EnoughPixels(available_pixels, expected_pixels[1]) THEN Err("Platform")
            ELSE IF checked_mul(expected_pixels[1], 4, bits) = Nothing THEN Err("Platform")
            ELSE LET pixels == IconBytes(PixelSlice(values, expected_pixels[1]))
                     image == from_raw(width, height, pixels)
                 IN IF 2 + expected_pixels[1] > Len(values) THEN Err("panic")
                    ELSE IF image = Nothing THEN Err("Platform")
                    ELSE IF size # Nothing
                    THEN Ok(resize_icon(image[1], size[1], filter_type))
                    ELSE Ok(image[1])

\* _NET_WM_ICON values a window can carry: nothing, a cut-off header, or a
\* header followed by pixel words
X11Replies ==
    SeqUpTo(U32, 1)
        \cup {<< w, h >> \o px : w \in U32, h \in U32, px \in SeqUpTo(PixelWords, MaxPixels)}

\* icon_config.size of the tracker's configuration
TargetSizes == {Nothing} \cup {Some(t) : t \in 1..MaxTarget}

\* A function is applied once, to arguments from its bounded set
Applying == mode = "apply" /\ applied = NoCall

GetIconData ==
    /\ Applying /\ backend = "x11"
    /\ \E values \in X11Replies, size \in TargetSizes, filter_type \in FilterTypes,
          bits \in PointerWidths :
         applied' = [fn |-> "get_icon_data",
                     arg |-> [values |-> values, size |-> size,
                              filter_type |-> filter_type, bits |-> bits],
                     out |-> get_icon_data_reply(values, size, filter_type, bits)]
    /\ UNCHANGED << loopVars, config >>

(***************************************************************************)
(* macOS: convert_icon_to_icon_data                                        *)
(***************************************************************************)
\* The largest width and height convert_icon_to_icon_data accepts
MaxMacDim == 1024
\* The placeholder get_app_icon returns: vec![32, 32]
MacPlaceholderDim == 32

\* convert_icon_to_icon_data(icon_data): dimensions are usize here
convert_icon_to_icon_data(icon_data) ==
    IF Len(icon_data) < 2 THEN Err("Platform")
    ELSE LET width == icon_data[1]
             height == icon_data[2]
             byte(k) == LET idx == 2 + ((k - 1) \div 4)
                        IN IF idx < Len(icon_data)
                           THEN ArgbToRgba(icon_data[idx + 1])[((k - 1) % 4) + 1]
                           ELSE 0
         IN IF width = 0 \/ height = 0 \/ width > MaxMacDim \/ height > MaxMacDim
            THEN Err("Platform")
            ELSE Ok([width |-> width, height |-> height,
                     pixels |-> [k \in 1..(width * height * 4) |-> byte(k)]])

\* Icon data handed to convert_icon_to_icon_data: what get_app_icon returns
\* today, and buffers with a header and pixel words
MacIconData ==
    {<< MacPlaceholderDim, MacPlaceholderDim >>}
        \cup SeqUpTo({0, 1, 2}, 1)
        \cup {<< w, h >> \o px : w \in {0, 1, 2, MaxMacDim + 1}, h \in {0, 1, 2, MaxMacDim + 1},
                                 px \in SeqUpTo(PixelWords, MaxPixels)}

ConvertIconToIconData ==
    /\ Applying /\ backend = "macos"
    /\ \E icon_data \in MacIconData :
         applied' = [fn |-> "convert_icon_to_icon_data",
                     arg |-> [values |-> icon_data],
                     out |-> convert_icon_to_icon_data(icon_data)]
    /\ UNCHANGED << loopVars, config >>

(***************************************************************************)
(* macOS: utils::get_frontmost_window_info                                 *)
(***************************************************************************)
\* get_frontmost_window_info(icon_config).  pid: what get_frontmost_window_pid
\* answers; app: the running application was found; window_title: what
\* get_window_title_via_accessibility answers; icon: what get_app_icon
\* answers (Ok(None) without a bundle, Ok(Some(image)), or the error of
\* nsimage_to_rgba).  Every `?` returns the error of the step.
get_frontmost_window_info(pid, app, window_title, icon) ==
    IF ~pid.ok THEN pid
    ELSE IF ~window_title.ok THEN window_title
    ELSE IF app /\ ~icon.ok THEN icon
    ELSE Ok([process_id |-> Some(pid.val),
             window_title |-> window_title.val,
             process_name |-> IF app THEN Some("a") ELSE Nothing,
             icon |-> IF app THEN icon.val ELSE Nothing])

GetFrontmostWindowInfo ==
    /\ Applying /\ backend = "macos"
    /\ \E pid \in {Ok(1), Err("Platform")},
          app \in BOOLEAN,
          window_title \in {Ok(Some("T1")), Ok(Nothing), Err("PermissionDenied"), Err("Platform")},
          icon \in {Ok(Nothing), Ok(Some("i1")), Err("Platform")} :
         applied' = [fn |-> "get_frontmost_window_info",
                     arg |-> [pid |-> pid, app |-> app, window_title |-> window_title, icon |-> icon],
                     out |-> get_frontmost_window_info(pid, app, window_title, icon)]
    /\ UNCHANGED << loopVars, config >>

(***************************************************************************)
(* macOS: utils::nsimage_to_rgba                                           *)
(***************************************************************************)
\* The size get_size_or_default answers when none is configured
DefaultIconSize == 128

\* IconConfig::get_size_or_default: self.size.unwrap_or(128)
get_size_or_default(size) == IF size = Nothing THEN DefaultIconSize ELSE size[1]

\* Widths (= heights) of the NSImage that iconForFile answers
MacNativeDims == {16, 32, DefaultIconSize}

\* nsimage_to_rgba(image, icon_config).  native: the size of the NSImage;
\* bitmap_rep, png_data, decoded: the bitmap representation was created,
\* its PNG data obtained, the PNG decoded.  The image is drawn into a bitmap
\* of icon_size x icon_size pixels, which is what is encoded and decoded;
\* the pixel values are left out.
nsimage_to_rgba(native, size, bitmap_rep, png_data, decoded) ==
    LET icon_size == get_size_or_default(size)
    IN IF ~bitmap_rep THEN Err("Platform")
       ELSE IF ~png_data THEN Err("Platform")
       ELSE IF ~decoded THEN Err("Platform")
       ELSE Ok([width |-> icon_size, height |-> icon_size])

NsimageToRgba ==
    /\ Applying /\ backend = "macos"
    /\ \E native \in MacNativeDims, size \in TargetSizes,
          bitmap_rep \in BOOLEAN, png_data \in BOOLEAN, decoded \in BOOLEAN :
         applied' = [fn |-> "nsimage_to_rgba",
                     arg |-> [native |-> native, size |-> size],
                     out |-> nsimage_to_rgba(native, size, bitmap_rep, png_data, decoded)]
    /\ UNCHANGED << loopVars, config >>

(***************************************************************************)
(* Windows: extract_window_icon from the bitmap header on                  *)
(***************************************************************************)
\* The bytes GetDIBits writes for a top-down 32-bit bitmap whose pixels
\* repeat the words of seed: b, g, r, a for each pixel
DibBits(seed, count) ==
    [k \in 1..(4 * count) |->
        LET px == ArgbToRgba(seed[(((k - 1) \div 4) % Len(seed)) + 1])
        IN << px[3], px[2], px[1], px[4] >>[((k - 1) % 4) + 1]]

\* `pixels.swap(i, i + 2)` for every pixel: BGRA to RGBA
BgraToRgba(bytes) ==
    [k \in 1..Len(bytes) |->
        CASE (k - 1) % 4 = 0 -> bytes[k + 2]
          [] (k - 1) % 4 = 2 -> bytes[k - 2]
          [] OTHER -> bytes[k]]

\* extract_window_icon once the icon handle and the bitmap header are there.
\* width, height: biWidth, biHeight of the header; seed: the bitmap's
\* pixels; profile: the build; bits: the width of usize.  The answer says
\* how many bytes were allocated for the pixels.
\* `(width * height) as usize` is a u32 product and `pixel_count * 4` a
\* usize product: a debug build panics when one overflows, a release build
\* goes on with the wrapped value and GetDIBits writes width*height*4 bytes
\* into the smaller buffer.
extract_window_icon(width, height, seed, size, profile, bits) ==
    IF width = 0 \/ height = 0 THEN {[outcome |-> "Err", allocated |-> 0]}
    ELSE LET overflow == width * height >= Pow2(U32Bits)
                         \/ wrapping_mul(width, height, U32Bits) * 4 >= Pow2(bits)
             pixel_count == wrapping_mul(width, height, U32Bits)
             allocated == wrapping_mul(pixel_count, 4, bits)
             pixels == BgraToRgba(DibBits(seed, width * height))
             image == from_raw(width, height, pixels)
         IN IF overflow /\ profile = "debug"
            THEN {[outcome |-> "panic", allocated |-> 0]}
            ELSE IF overflow
            THEN \* out-of-bounds write by GetDIBits, or GetDIBits fails
                 {[outcome |-> "Err", allocated |-> allocated],
                  [outcome |-> "undefined", allocated |-> allocated]}
            ELSE {[outcome |-> "Err", allocated |-> allocated],
                  [outcome |-> "Ok", allocated |-> allocated,
                   image |-> IF size # Nothing
                             THEN win_resize_icon(image[1], size[1])
                             ELSE image[1]]}

ExtractWindowIcon ==
    /\ Applying /\ backend = "windows"
    /\ \E width \in U32, height \in U32, seed \in SeqUpTo(PixelWords, 2) \ {<< >>},
          size \in TargetSizes, profile \in Profiles, bits \in PointerWidths :
         \E out \in extract_window_icon(width, height, seed, size, profile, bits) :
            applied' = [fn |-> "extract_window_icon",
                        arg |-> [width |-> width, height |-> height, seed |-> seed,
                                 size |-> size, profile |-> profile, bits |-> bits],
                        out |-> out]
    /\ UNCHANGED << loopVars, config >>

(***************************************************************************)
(* Sway: the icon of get_focused_window_from_event                         *)
(***************************************************************************)
\* icon: Some(IconData { width: 0, height: 0, pixels: Vec::new() })
sway_event_icon == Some([width |-> 0, height |-> 0, pixels |-> << >>])

SwayEventIcon ==
    /\ Applying /\ backend = "wayland"
    /\ applied' = [fn |-> "get_focused_window_from_event", arg |-> << >>,
                   out |-> Ok(sway_event_icon[1])]
    /\ UNCHANGED << loopVars, config >>

(***************************************************************************)
(* resize_icon on its own                                                  *)
(***************************************************************************)
\* Images of up to MaxTarget x MaxTarget pixels
SmallImages ==
    {Image(w, h, RgbaBytes([p \in 1..(w * h) |-> seed[((p - 1) % Len(seed)) + 1]])) :
        w \in 1..MaxTarget, h \in 1..MaxTarget, seed \in SeqUpTo(PixelWords, 2) \ {<< >>}}

ResizeIcon ==
    /\ Applying /\ backend \in {"x11", "windows"}
    /\ \E image \in SmallImages, target_size \in 1..MaxTarget, filter_type \in FilterTypes :
         LET once == IF backend = "x11"
                     THEN resize_icon(image, target_size, filter_type)
                     ELSE win_resize_icon(image, target_size)
             twice == IF backend = "x11"
                      THEN resize_icon(once, target_size, filter_type)
                      ELSE win_resize_icon(once, target_size)
         IN applied' = [fn |-> "resize_icon",
                        arg |-> [image |-> image, target_size |-> target_size,
                                 filter_type |-> filter_type],
                        out |-> [once |-> once, twice |-> twice]]
    /\ UNCHANGED << loopVars, config >>

(***************************************************************************)
(* Specification                                                           *)
(***************************************************************************)
\* What can be wrong with the event source when the tracker is started: the
\* X display cannot be opened (or the atoms / root subscription fail), the
\* Windows session has no desktop, the macOS accessibility API is disabled,
\* swaymsg cannot be run (the compositor is not Sway) or Sway's IPC is not
\* reachable.  "Wayland": the Linux session is a Wayland one, which the Linux
\* ImplFocusTracker detects before it calls the X11 tracker.
SourceStates(b) ==
    CASE b = "x11" -> {"ok", "NoDisplay", "Platform", "Wayland"}
      [] b = "windows" -> {"ok", "NotInteractiveSession"}
      [] b = "macos" -> {"ok", "PermissionDenied"}
      [] OTHER -> {"ok", "NoSway", "Platform"}

InitWith(configs) ==
    /\ \E c \in configs : backend = c[1] /\ mode = c[2]
    /\ source \in SourceStates(backend)
    /\ source = "Wayland" => mode \notin {"async", "async_stop", "pair"}
    /\ mode \in {"build", "apply"} => source = "ok" /\ active = None
    /\ procOf \in {f \in [Windows -> Procs] : f["w1"] = "a"}
    /\ active \in Windows \cup {None}
    /\ source = "NotInteractiveSession" => active = None
    /\ title = [w \in Windows |-> "T1"]
    /\ iconOf = NativeIcon
    /\ subscribed = {}
    /\ queue = << >>
    /\ envBudget = MaxEnv
    /\ stop \in (IF mode \in {"stop", "async_stop"} THEN BOOLEAN ELSE {FALSE})
    /\ stop_at_call = stop
    /\ rxAlive = (mode \in {"subscribe", "async", "async_stop"})
    /\ chan = << >>
    /\ pc = "init"
    /\ result = Running
    /\ current_focused_window = None
    /\ cached_icon = None
    /\ prev_hwnd = None
    /\ prev_process = None
    /\ prev_title = None
    /\ last_focused = None
    /\ tick = 0
    /\ cpc = IF mode \in {"async", "async_stop"} THEN "top" ELSE "idle"
    /\ cresult = Running
    /\ internal_stop = FALSE
    /\ emitted = << >>
    /\ delivered = << >>
    /\ fetches = 0
    /\ observed = FALSE
    /\ seen = NoKey
    /\ ignored = NoItem
    /\ cbFailed = FALSE
    /\ reconnected = FALSE
    /\ w_current_focused_window = None
    /\ w_cached_icon = None
    /\ w_sent = << >>
    /\ w_result = Running
    /\ emitted_at_stop = 0
    /\ applied = NoCall
    /\ config = FocusTrackerConfig_default

WindowsNext ==
    \/ \E w \in Windows \cup {None} : EnvFocus(w)
    \/ \E w \in Windows, t \in Titles : EnvTitle(w, t)
    \/ \E w \in Windows : EnvIcon(w)

X11RunNext == ImplTrackFocusWayland \/ XStart \/ XTop \/ XPollNone \/ XWaitErr \/ XHandle
PollNext == WinStart \/ WinStop \/ WinPoll \/ MacStop \/ MacPoll
SwayNext == WlStart \/ WlNext
WorkerNext == WStart \/ WStop \/ WPollNone \/ WHandle
ConsumerNext ==
    \/ CTop \/ CRecv \/ CRecvClosed \/ CTimeout \/ CHandlerDone \/ CGrace \/ CJoin
    \/ CDropped

\* The loop of a callback entry point (track_focus, track_focus_with_stop)
LoopNext == X11RunNext \/ PollNext \/ SwayNext

\* track_focus and track_focus_with_stop on the four backends
Next == WindowsNext \/ EnvStreamError \/ CallerStops \/ LoopNext
Spec == InitWith(CallbackConfigs) /\ [][Next]_vars

\* The same, with the loop's thread scheduled fairly: it keeps running
\* whatever the operating system and the caller do
FairSpec == Spec /\ WF_vars(LoopNext)

\* subscribe_focus_changes on the backends FocusTracker wraps
\* (its stop flag is never set, so WinStop and MacStop cannot happen)
NextSubscribe ==
    \/ WindowsNext
    \/ X11RunNext \/ WinStart \/ WinPoll \/ MacPoll
    \/ SubRecv \/ SubDrop
SpecSubscribe == InitWith(SubscribeConfigs) /\ [][NextSubscribe]_vars

\* track_focus_async and track_focus_async_with_stop (X11)
NextAsync == WindowsNext \/ CallerStops \/ WorkerNext \/ ConsumerNext
SpecAsync == InitWith(AsyncConfigs) /\ [][NextAsync]_vars

\* The two channel-based entry points together: subscribe_focus_changes and
\* the async bridge
NextChannel == NextSubscribe \/ NextAsync
SpecChannel == InitWith(SubscribeConfigs \cup AsyncConfigs) /\ [][NextChannel]_vars

\* The X11 state machine in both its copies: run and the run_async worker
\* (track_focus_async has no stop flag: the internal flag is set only after
\* the worker has ended, so WStop cannot happen)
NextX11 ==
    \/ WindowsNext \/ CallerStops
    \/ X11RunNext
    \/ WStart \/ WPollNone \/ WHandle
    \/ ConsumerNext
SpecX11 == InitWith(X11Configs) /\ [][NextX11]_vars

\* A FocusTrackerConfig is built before any entry point of a backend is called
BuildConfigs == Backends \X {"build"}
NextConfig ==
    with_icon_config \/ with_icon_size \/ with_poll_interval \/ with_poll_interval_ms
SpecConfig == InitWith(BuildConfigs) /\ [][NextConfig]_vars

\* The icon functions and the macOS window query, each applied on its own
ApplyConfigs == Backends \X {"apply"}
NextIcon ==
    \/ GetIconData \/ ConvertIconToIconData \/ GetFrontmostWindowInfo
    \/ ExtractWindowIcon \/ SwayEventIcon \/ ResizeIcon \/ NsimageToRgba
SpecIcon == InitWith(ApplyConfigs) /\ [][NextIcon]_vars

\* The blocking run and a run_async worker side by side
PairConfigs == {"x11"} \X {"pair"}
NextPair == WindowsNext \/ PairStart \/ PairHandle
SpecPair == InitWith(PairConfigs) /\ [][NextPair]_vars

(***************************************************************************)
(* Properties                                                              *)
(***************************************************************************)
\* Positions of `emitted` that have a predecessor
Later == 2..Len(emitted)

\* C1  Dedup invariant: on the X11, Windows and macOS loops the events handed
\* to the callback never contain two adjacent events with the same
\* (process_name, window_title) pair.
C1_NoAdjacentDuplicates ==
    backend \in {"x11", "windows", "macos"} =>
        \A i \in Later : Key(emitted[i]) # Key(emitted[i - 1])

\* C2  Cancellation never hangs: once the caller has set the stop flag of a
\* running track_focus_with_stop, the call eventually returns, whatever the
\* operating system delivers.
C2_StopLeadsToReturn == (mode = "stop" /\ stop) ~> (pc = "done")

\* C3  Subscription adapter: the first failed send (the Receiver is gone) ends
\* the tracking loop.
C3_FailedSendEndsLoop == (mode = "subscribe" /\ cbFailed) => pc = "done"

\* The window the loop remembers as the focused one
RememberedWindow == IF backend = "x11" THEN current_focused_window ELSE prev_hwnd

\* C4  The icon is fetched only when the loop has no remembered window (first
\* observation) or the focused window it remembers changes: never for a title
\* change, never for a notification naming the remembered window again.
C4_FetchOnlyOnIdentityChange ==
    [][(backend \in {"x11", "windows"} /\ fetches' # fetches)
          => (RememberedWindow = None \/ RememberedWindow' # RememberedWindow)]_vars

\* C5  Callback errors are logged, not propagated: no tracking call returns
\* the error of its callback.
C5_CallbackErrorNotReturned == result # "Callback"

\* C6  Async shutdown: whenever the consumer side has ended (stop observed,
\* channel closed, or the future dropped at an await), the worker's internal
\* stop flag is set and the queue is closed.
C6_ConsumerEndStopsWorker ==
    cpc \in {"grace", "join", "returned", "dropped"} => (internal_stop /\ ~rxAlive)

\* C7  Sway reconnection: after the connection has been re-established
\* following a stream error, the tracker is still running.
C7_ReconnectKeepsTracking == reconnected => pc # "done"

\* C8  X11: an event produced for a name-property notification carries a title
\* that differs from the title of the event emitted before it.
C8_TitleEventOnlyOnNewTitle ==
    backend = "x11" =>
        \A i \in Later :
            emitted[i].kind = "title" =>
                emitted[i].window_title # emitted[i - 1].window_title

\* Positions holding a title event that directly follows the window event
\* (initial snapshot or active-window change) of the same window
TitleAfterWindowEvent ==
    {i \in Later : /\ emitted[i].kind = "title"
                   /\ emitted[i - 1].kind \in {"initial", "active"}
                   /\ emitted[i].win = emitted[i - 1].win}

\* C9  Icon-cache invariant (X11 run and run_async worker): a title event that
\* directly follows the window event of the same window carries the same icon,
\* and icons are fetched for window events only (one fetch per window event,
\* none for a title event).
C9_TitleEventReusesIcon ==
    /\ \A i \in TitleAfterWindowEvent : emitted[i].icon = emitted[i - 1].icon
    /\ fetches = Cardinality({i \in 1..Len(emitted) : emitted[i].kind # "title"})

\* C9 witness: such a title event exists and carries an icon although the
\* window has withdrawn its icon since the window event
C9_Witness ==
    \E i \in TitleAfterWindowEvent :
        /\ emitted[i].icon = NativeIcon[emitted[i].win]
        /\ iconOf[emitted[i].win] = NoIcon

\* C10  First-event invariant: once the loop has obtained the identity of a
\* focused window, it has emitted an event; so the first identity it obtains
\* is always reported.
C10_FirstObservationEmits == observed => Len(emitted) >= 1

\* C10 witness: no event came from the start of the loop, and the first
\* window found by a later poll has been reported
C10_Witness ==
    /\ backend \in {"windows", "macos"}
    /\ observed
    /\ Len(emitted) = 1
    /\ emitted[1].kind \in {"active", "poll"}

\* The window event (initial snapshot or active-window change) that governs
\* position i of `emitted`: the latest one at or before i, 0 if there is none
WindowEventBefore(i) ==
    LET S == {j \in 1..i : emitted[j].kind # "title"}
    IN IF S = {} THEN 0 ELSE CHOOSE j \in S : \A k \in S : k <= j

\* C11  X11 icon failure: an event carries either no icon or the icon of its
\* own window, never one cached for another window; a title event belongs to
\* the window of the latest window event and carries exactly that event's
\* icon (None when its fetch failed); and the cache holds the icon of the
\* latest window event.
C11_FailedFetchCachesNone ==
    backend = "x11" =>
        /\ \A i \in 1..Len(emitted) :
              /\ emitted[i].icon \in {None, NativeIcon[emitted[i].win]}
              /\ emitted[i].kind = "title" =>
                    /\ WindowEventBefore(i) # 0
                    /\ emitted[WindowEventBefore(i)].win = emitted[i].win
                    /\ emitted[WindowEventBefore(i)].icon = emitted[i].icon
        /\ Len(emitted) > 0 /\ WindowEventBefore(Len(emitted)) # 0 =>
              cached_icon = emitted[WindowEventBefore(Len(emitted))].icon

\* C11 witness: the previous window's icon was fetched and cached, the fetch
\* for the newly focused window failed, and a title event of the new window
\* followed, carrying no icon
C11_Witness ==
    /\ backend = "x11"
    /\ \E i \in 3..Len(emitted) :
          /\ emitted[i].kind = "title" /\ emitted[i].icon = None
          /\ emitted[i - 1].kind = "active" /\ emitted[i - 1].icon = None
          /\ emitted[i - 1].win = emitted[i].win
          /\ emitted[i - 2].icon # None
          /\ emitted[i - 2].win # emitted[i].win

\* C12  Ordering: what the consumer has received, followed by what waits in
\* the channel, is a prefix of what the loop emitted, position by position
\* (same order, nothing twice, nothing merged); while the receiving end
\* exists nothing is missing either.
C12_DeliveredInEmissionOrder ==
    /\ Len(delivered) + Len(chan) <= Len(emitted)
    /\ \A i \in 1..Len(delivered) : delivered[i] = emitted[i]
    /\ \A i \in 1..Len(chan) : chan[i] = emitted[Len(delivered) + i]
    /\ rxAlive => Len(delivered) + Len(chan) = Len(emitted)

\* C12 witness: the async consumer has received two different events that
\* were waiting in the channel together, and a third is waiting
C12_Witness ==
    /\ IsAsync
    /\ Len(delivered) >= 2 /\ delivered[1] # delivered[2]
    /\ Len(chan) >= 1 /\ chan[1] # delivered[2]

\* C13  The async call surfaces the worker's result: when track_focus_async
\* has returned, the worker has ended, and the call returned the worker's
\* error if it ended with one (a failed setup: NoDisplay or Platform) and
\* Ok(()) if it ended with Ok.
C13_AsyncReturnsWorkerResult ==
    cpc = "returned" =>
        /\ pc = "done"
        /\ cresult = result
        /\ cresult \in {"Ok", "NoDisplay", "Platform"}

\* C13 witness: the worker could not open the display and the async call has
\* returned NoDisplay
C13_Witness == cpc = "returned" /\ cresult = "NoDisplay" /\ emitted = << >>

\* C14  Blocking-forever mode: track_focus called without a stop flag never
\* returns Ok(()); when it has returned, it returned an error.
C14_BlockingNeverReturnsOk ==
    (mode = "blocking" /\ pc = "done") => result # "Ok"

\* C15  Source-unavailability errors end the call: once the tracker has tried
\* a source that answers NoDisplay (X11), NotInteractiveSession (Windows) or
\* PermissionDenied (macOS), the call has returned that error and polls no more.
C15_SourceUnavailableEndsCall ==
    (source \in {"NoDisplay", "NotInteractiveSession", "PermissionDenied"}
        /\ pc # "init")
    => (pc = "done" /\ result = source)

\* C16  Transient per-event failures never terminate the loop: once the source
\* is established, the X11, Windows and macOS tracking calls do not return the
\* Platform error of a failed query, fetch, wait or flush.
C16_TransientFailureNotReturned ==
    (backend \in {"x11", "windows", "macos"} /\ source = "ok") => result # "Platform"

\* C17  Unsupported compositor on Linux: once the tracking call has found the
\* session to be a Wayland session (Linux ImplFocusTracker) or the compositor
\* not to be Sway (Sway tracker), it has returned Unsupported, and no event was
\* handed to the callback.
C17_UnsupportedCompositorFailsFast ==
    (source \in {"Wayland", "NoSway"} /\ pc # "init")
    => (pc = "done" /\ result = "Unsupported" /\ emitted = << >>)

\* C18  Dedup key (macOS, Sway): the pair (process_name, window_title) the loop
\* obtained last is the pair of the last event it emitted, so an observation
\* that differs from the last emitted pair in either component was emitted.
C18_LastObservationEmitted ==
    (backend \in {"macos", "wayland"} /\ seen # NoKey)
    => (Len(emitted) > 0 /\ Key(emitted[Len(emitted)]) = seen)

\* An X11 loop (run or the run_async worker) consumes the notification at the
\* head of the queue in this step
XConsumes == backend = "x11" /\ queue # << >> /\ queue' = Tail(queue)

\* C19  X11: a step that produces a title-change event consumes a name
\* notification sent for the window monitored at that moment, and the event
\* is about that window; a step that consumes a name notification for any
\* other window produces no event.
C19_TitleEventOnlyForMonitoredWindow ==
    [][XConsumes =>
         /\ (Len(emitted') > Len(emitted) /\ emitted'[Len(emitted')].kind = "title")
              => /\ Head(queue).kind = "name"
                 /\ Head(queue).window = current_focused_window
                 /\ emitted'[Len(emitted')].win = current_focused_window
         /\ (Head(queue).kind = "name" /\ Head(queue).window # current_focused_window)
              => emitted' = emitted]_vars

\* C19 witness: the loop has consumed, without an event, a name notification
\* sent for the window that the latest active-window change deselected
C19_Witness ==
    /\ backend = "x11"
    /\ ignored.kind = "name"
    /\ current_focused_window \notin {None, ignored.window}
    /\ Len(emitted) >= 2
    /\ emitted[Len(emitted)].kind = "active"
    /\ emitted[Len(emitted)].win = current_focused_window
    /\ emitted[Len(emitted) - 1].win = ignored.window

\* The source could be established: the display, session or IPC answered,
\* and the Windows session check found a foreground window
SourceReachable == source = "ok" /\ result # "NotInteractiveSession"

\* C20  Stop flag set before the call: track_focus_with_stop on a reachable
\* source never waits on the event source, reports nothing but the initial
\* snapshot, and does not return an error.
C20_StopBeforeStartNeverWaits ==
    (mode = "stop" /\ stop_at_call /\ SourceReachable)
    => /\ pc # "wait"
       /\ \A i \in 1..Len(emitted) : emitted[i].kind = "initial"
       /\ result \in {Running, "Ok"}

\* C21 For the same X11 notifications, with no cancellation and a handler
\* that always succeeds, the run_async worker hands over exactly the events
\* the blocking run hands to its callback, and both end with the same result
C21_AsyncMatchesBlocking ==
    mode = "pair" => (w_sent = emitted /\ w_result = result)

\* C30 A FocusTrackerConfig that new() and builder calls returned has a poll
\* interval above zero and at most 10 s and, if it has an icon size, one
\* above zero and at most 512
C30_ConfigInRange ==
    (mode = "build" /\ ~config.panicked) =>
        /\ 0 < config.poll_interval /\ config.poll_interval <= MaxPollMs
        /\ \A i \in 1..Len(config.icon.size) :
              0 < config.icon.size[i] /\ config.icon.size[i] <= MaxIconSize

\* C22 An icon failure does not fail the window query: when the process and
\* the title are obtained, the query answers a window, with icon None if
\* the icon could not be extracted
C22_IconFailureNotFatal ==
    (/\ applied.fn = "get_frontmost_window_info"
     /\ applied.arg.pid.ok /\ applied.arg.window_title.ok) =>
        /\ applied.out.ok
        /\ ~applied.arg.icon.ok => applied.out.val.icon = Nothing

\* The icon an applied icon function answered, as a sequence of at most one
IconOut ==
    CASE applied.fn \in {"get_icon_data", "convert_icon_to_icon_data",
                         "get_focused_window_from_event"} ->
            IF applied.out.ok THEN << applied.out.val >> ELSE << >>
      [] applied.fn = "extract_window_icon" ->
            IF applied.out.outcome = "Ok" THEN << applied.out.image >> ELSE << >>
      [] OTHER -> << >>

Converted ==
    /\ applied.fn \in {"get_icon_data", "convert_icon_to_icon_data"}
    /\ applied.out.ok
    /\ applied.fn = "get_icon_data" => applied.arg.size = Nothing
    /\ Len(applied.arg.values) - 2 >= applied.arg.values[1] * applied.arg.values[2]

\* C24 A converted W x H buffer has W*H*4 bytes, and the source word
\* 0xAARRGGBB at position p gives the bytes RR, GG, BB, AA at offset 4p
C24_ArgbToRgba ==
    Converted =>
        LET W == applied.arg.values[1]
            H == applied.arg.values[2]
            out == applied.out.val.pixels
        IN /\ Len(out) = W * H * 4
           /\ \A p \in 0..(W * H - 1) :
                 LET word == applied.arg.values[3 + p]
                 IN /\ out[4 * p + 1] = (word % 16777216) \div 65536
                    /\ out[4 * p + 2] = (word % 65536) \div 256
                    /\ out[4 * p + 3] = word % 256
                    /\ out[4 * p + 4] = word \div 16777216

\* Two different words were converted by X11 get_icon_data
C24_Witness ==
    /\ Converted /\ applied.fn = "get_icon_data"
    /\ applied.arg.values[1] * applied.arg.values[2] = 2
    /\ applied.arg.values[3] # applied.arg.values[4]

\* The source buffer of the application has no header, a zero dimension,
\* or fewer pixel words after the header than width * height
InvalidIconBuffer ==
    /\ applied.fn \in {"get_icon_data", "convert_icon_to_icon_data"}
    /\ \/ Len(applied.arg.values) < 2
       \/ applied.arg.values[1] = 0
       \/ applied.arg.values[2] = 0
       \/ Len(applied.arg.values) - 2 < applied.arg.values[1] * applied.arg.values[2]

\* C25 Extraction from a source buffer without header, with a zero width or
\* height, or with fewer than width * height pixel words answers an error:
\* it does not panic and answers no image
C25_InvalidIconIsError ==
    InvalidIconBuffer => (~applied.out.ok /\ applied.out.err # "panic")

\* The application has nonzero dimensions whose product, or its fourfold,
\* does not fit the integer type the code computes it in
DimensionOverflow ==
    \/ /\ applied.fn = "get_icon_data"
       /\ Len(applied.arg.values) >= 2
       /\ applied.arg.values[1] > 0 /\ applied.arg.values[2] > 0
       /\ applied.arg.values[1] * applied.arg.values[2] * 4 >= Pow2(applied.arg.bits)
    \/ /\ applied.fn = "extract_window_icon"
       /\ applied.arg.width > 0 /\ applied.arg.height > 0
       /\ \/ applied.arg.width * applied.arg.height >= Pow2(U32Bits)
          \/ applied.arg.width * applied.arg.height * 4 >= Pow2(applied.arg.bits)

\* C26 When width * height or width * height * 4 does not fit, extraction
\* answers an error, and a pixel buffer that was allocated is never smaller
\* than width * height * 4 bytes
C26_OverflowDetected ==
    /\ DimensionOverflow =>
          IF applied.fn = "get_icon_data"
          THEN ~applied.out.ok /\ applied.out.err # "panic"
          ELSE applied.out.outcome = "Err"
    /\ (applied.fn = "extract_window_icon" /\ applied.out.allocated > 0) =>
          applied.out.allocated >= applied.arg.width * applied.arg.height * 4

\* C27 resize_icon on an image that is already target_size x target_size
\* answers the identical image, and resizing twice to the same target
\* equals resizing once
C27_ResizeIdempotent ==
    applied.fn = "resize_icon" =>
        /\ (/\ applied.arg.image.width = applied.arg.target_size
            /\ applied.arg.image.height = applied.arg.target_size) =>
               applied.out.once = applied.arg.image
        /\ applied.out.twice = applied.out.once

\* X11 resize_icon was applied with a smoothing filter to an image at the
\* target size whose neighbouring pixels differ
C27_Witness ==
    /\ applied.fn = "resize_icon" /\ backend = "x11"
    /\ applied.arg.filter_type = "Gaussian"
    /\ applied.arg.image.width = 2 /\ applied.arg.image.height = 2
    /\ applied.arg.target_size = 2
    /\ applied.arg.image.pixels[1] # applied.arg.image.pixels[5]

\* C28 The async consumer never starts an invocation of on_focus while the
\* previous one has not completed: an event is handed to the handler only
\* from the receive point of the loop, one event per step
C28_HandlerInvocationsSerial ==
    [][Len(delivered') # Len(delivered) =>
          /\ Len(delivered') = Len(delivered) + 1
          /\ cpc = "recv" /\ cpc' = "handler"]_vars

\* An invocation of on_focus is in progress while the next event is
\* already in the channel
C28_Witness == IsAsync /\ cpc = "handler" /\ chan # << >>

\* C29 No step of the tracker writes the caller's stop flag, and the
\* internal flag of run_async is written only by the consumer's cleanup,
\* from false to true, while the worker only reads it
C29_StopFlagsFrame ==
    [][/\ stop' # stop =>
            /\ stop' = TRUE
            /\ UNCHANGED << pc, result, cpc, cresult, internal_stop, rxAlive, chan,
                            queue, emitted, delivered, x11Vars >>
       /\ internal_stop' # internal_stop =>
            /\ ~internal_stop /\ internal_stop'
            /\ cpc \in {"top", "recv"} /\ cpc' = "grace"
            /\ UNCHANGED << pc, result, stop >>]_vars

\* The worker has read the internal flag the consumer set after it saw the
\* caller's flag, and has returned
C29_Witness ==
    /\ mode = "async_stop" /\ stop /\ ~stop_at_call
    /\ internal_stop /\ pc = "done" /\ result = "Ok" /\ rxAlive = FALSE
    /\ cpc = "returned"

\* C31 X11: the windows subscribed for property changes are exactly the
\* monitored window, if any, so at most one; and a handled active-window
\* change whose read succeeded leaves current_focused_window at the window
\* that was read (None when no window is active)
C31_OneWindowSubscribed ==
    [][backend = "x11" =>
         /\ subscribed' = (IF current_focused_window' = None
                           THEN {} ELSE {current_focused_window'})
         /\ (XConsumes /\ Head(queue).kind = "active") =>
               \/ current_focused_window' = active
               \/ UNCHANGED << current_focused_window, subscribed, emitted >>]_vars

\* The focus moved from one window to another and the loop followed it
C31_Witness ==
    /\ backend = "x11"
    /\ Len(emitted) >= 2
    /\ emitted[Len(emitted)].kind = "active"
    /\ emitted[Len(emitted) - 1].win \notin {None, current_focused_window}
    /\ subscribed = {current_focused_window}
    /\ current_focused_window = active

\* C32 subscribe_focus_changes returns Ok whatever its worker returns, and
\* when the event source cannot be established the consumer gets no event:
\* once the worker has ended, the channel is empty and disconnected
C32_SubscribeHidesSourceFailure ==
    mode = "subscribe" =>
        /\ subscribe_focus_changes(result) = "Ok"
        /\ source # "ok" =>
              /\ emitted = << >> /\ delivered = << >>
              /\ pc = "done" => (chan = << >> /\ result \notin {Running, "Ok"})

\* The worker of a subscription has ended on a display that could not be
\* opened
C32_Witness ==
    /\ mode = "subscribe" /\ source = "NoDisplay"
    /\ pc = "done" /\ result = "NoDisplay" /\ rxAlive

C34_NoHandlerAfterStopObserved ==
    [][IsAsync =>
         /\ (mode = "async_stop" /\ stop /\ cpc = "top" /\ cpc' # cpc) =>
               (cpc' = "grace" /\ chan' = << >> /\ ~rxAlive' /\ delivered' = delivered)
         /\ cpc \in {"grace", "join", "returned", "dropped"} =>
               /\ delivered' = delivered
               /\ cpc' \in {"grace", "join", "returned", "dropped"}]_vars

\* The call returned after the stop flag was seen, and an event the worker
\* had sent was never given to the handler
C34_Witness ==
    /\ mode = "async_stop" /\ stop /\ cpc = "returned"
    /\ Len(emitted) > Len(delivered)

\* C35 X11: the monitored window changes only in a step that emits the
\* initial or a focus event for it, and that step stores in cached_icon the
\* outcome of get_icon_data for that window; every other step that leaves a
\* window monitored keeps both.  A title event reports the monitored window
\* with the cached icon.
C35_CacheIsMonitoredWindowsIcon ==
    [][backend = "x11" =>
         LET emits == Len(emitted') = Len(emitted) + 1
             ev == emitted'[Len(emitted')]
         IN /\ current_focused_window' # None =>
                  IF emits /\ ev.kind \in {"initial", "active"}
                  THEN /\ ev.win = current_focused_window'
                       /\ cached_icon' = ok(get_icon_data(current_focused_window'))
                       /\ ev.icon = cached_icon'
                  ELSE UNCHANGED << current_focused_window, cached_icon >>
            /\ (emits /\ ev.kind = "title") =>
                  /\ ev.win = current_focused_window
                  /\ ev.icon = cached_icon]_vars

\* A title event of the monitored window carries the icon fetched for it,
\* after another window with another icon had been reported
C35_Witness ==
    /\ backend = "x11" /\ Len(emitted) >= 2
    /\ current_focused_window # None
    /\ emitted[Len(emitted)].kind = "title"
    /\ emitted[Len(emitted)].win = current_focused_window
    /\ emitted[Len(emitted)].icon = cached_icon
    /\ \E i \in 1..Len(emitted) :
          /\ emitted[i].win # current_focused_window
          /\ emitted[i].icon \notin {None, cached_icon}

\* C36 X11: handling an active-window notification while no window is active
\* emits nothing, removes the monitored window from the subscribed windows
\* and leaves current_focused_window None (or, when the query of the active
\* window fails, changes nothing); while current_focused_window is None no
\* window is subscribed and a name notification emits nothing
C36_NoActiveWindowIsSilent ==
    [][backend = "x11" =>
         /\ (XConsumes /\ Head(queue).kind = "active" /\ active = None) =>
               /\ emitted' = emitted
               /\ \/ /\ current_focused_window' = None
                     /\ subscribed' = subscribed \ {current_focused_window}
                     /\ subscribed' = {}
                  \/ UNCHANGED << current_focused_window, subscribed >>
         /\ (current_focused_window = None /\ pc # "init") => subscribed = {}
         /\ (XConsumes /\ Head(queue).kind = "name" /\ current_focused_window = None) =>
               UNCHANGED << emitted, current_focused_window, subscribed, cached_icon >>]_vars

\* After an event for a window, the focus went to no window and a name
\* notification that was still queued for the old window was dropped
C36_Witness ==
    /\ backend = "x11" /\ emitted # << >>
    /\ emitted[Len(emitted)].win # None
    /\ current_focused_window = None /\ subscribed = {}
    /\ ignored.kind = "name" /\ ignored.window = emitted[Len(emitted)].win
    /\ active = None

\* C37 X11: handling a notification that is neither for _NET_ACTIVE_WINDOW
\* on the root window nor for _NET_WM_NAME on the monitored window emits
\* nothing, fetches no icon, and leaves current_focused_window, cached_icon
\* and the subscribed windows as they were
C37_OtherNotificationsChangeNothing ==
    [][(/\ XConsumes
        /\ ~(Head(queue).kind = "active" /\ Head(queue).window = Root)
        /\ ~(Head(queue).kind = "name" /\ Head(queue).window = current_focused_window))
       => UNCHANGED << emitted, current_focused_window, cached_icon, subscribed,
                       fetches >>]_vars

\* The loop has consumed, without an event, a notification for another
\* property of the window it monitors
C37_Witness ==
    /\ backend = "x11" /\ emitted # << >>
    /\ ignored.kind = "other"
    /\ ignored.window = current_focused_window
    /\ subscribed = {current_focused_window}
    /\ emitted[Len(emitted)].win = current_focused_window
    /\ queue = << >>

\* An iteration of the Windows loop, ended by its sleep
WinPolls == backend = "windows" /\ pc = "top" /\ tick' # tick

NothingChanged == envBudget = MaxEnv

SizedIconProduced ==
    /\ applied.fn \in {"get_icon_data", "extract_window_icon", "nsimage_to_rgba"}
    /\ IF applied.fn = "extract_window_icon"
       THEN applied.out.outcome = "Ok" ELSE applied.out.ok

\* Width and height of the icon the call produced
SizedIconDims ==
    IF applied.fn = "extract_window_icon"
    THEN << applied.out.image.width, applied.out.image.height >>
    ELSE << applied.out.val.width, applied.out.val.height >>

\* Width and height of the image the platform handed over
NativeIconDims ==
    CASE applied.fn = "get_icon_data" -> << applied.arg.values[1], applied.arg.values[2] >>
      [] applied.fn = "extract_window_icon" -> << applied.arg.width, applied.arg.height >>
      [] applied.fn = "nsimage_to_rgba" -> << applied.arg.native, applied.arg.native >>

\* C40 An icon produced with no size configured has the dimensions of the
\* native image; one produced with size t configured is t x t
C40_TargetSizeRespected ==
    SizedIconProduced =>
        IF applied.arg.size = Nothing
        THEN SizedIconDims = NativeIconDims
        ELSE SizedIconDims = << applied.arg.size[1], applied.arg.size[1] >>
====
